---- MODULE Spec2Model ----
(***************************************************************************)
(* A model of the LinkedIn scraping pipeline of the bot: the URL policy,   *)
(* the timeout fetch, the redirect guard, the retry wrapper and the        *)
(* top-level scrape (src/lib/utils.js, src/lib/linkedin.js).               *)
(*                                                                         *)
(* Strings that the code inspects character by character (hostnames) are   *)
(* sequences of one-character strings.  A URL string is the record of its  *)
(* raw components; parseUrl turns it into the components the WHATWG parser *)
(* exposes (lower-cased scheme and host, dot-segments removed).            *)
(***************************************************************************)
EXTENDS Integers, Sequences, FiniteSets, TLC

(***************************************************************************)
(* Bounds of the model.                                                    *)
(***************************************************************************)
MaxLabelLen == 3
MaxPathLen == 3
MaxRedirectsBound == 2
MaxRetriesBound == 2

(***************************************************************************)
(* Characters and strings.                                                 *)
(***************************************************************************)
LowerLetters == {"a", "c", "d", "e", "i", "k", "l", "m", "n", "o", "t", "v", "w", "z"}
Digits == {"7"}
LowerOf == ("A" :> "a") @@ ("C" :> "c") @@ ("D" :> "d") @@ ("E" :> "e") @@
           ("I" :> "i") @@ ("K" :> "k") @@ ("L" :> "l") @@ ("M" :> "m") @@
           ("N" :> "n") @@ ("O" :> "o") @@ ("W" :> "w") @@ ("Z" :> "z")

ToLowerChar(c) == IF c \in DOMAIN LowerOf THEN LowerOf[c] ELSE c

\* String.prototype.toLowerCase
ToLowerCase(s) == [i \in 1..Len(s) |-> ToLowerChar(s[i])]

\* String.prototype.endsWith
EndsWith(s, suffix) ==
    /\ Len(s) >= Len(suffix)
    /\ SubSeq(s, Len(s) - Len(suffix) + 1, Len(s)) = suffix

\* String.prototype.startsWith, also used on token sequences
StartsWith(s, prefix) ==
    /\ Len(s) >= Len(prefix)
    /\ SubSeq(s, 1, Len(prefix)) = prefix

\* All sequences over S of length at most n
BoundedSeq(S, n) == UNION {[1..k -> S] : k \in 0..n}

LICDN_SUFFIX == <<".", "l", "i", "c", "d", "n", ".", "c", "o", "m">>
LINKEDIN_HOST == <<"w", "w", "w", ".", "l", "i", "n", "k", "e", "d", "i", "n", ".", "c", "o", "m">>
LINKEDIN_POST_PATH_PREFIXES == {<<"/", "posts", "/">>, <<"/", "feed", "/", "update", "/">>}

(***************************************************************************)
(* URL parsing.  A raw URL is [scheme, host, path]: the text before "://", *)
(* the authority as characters, and the path as the segments between its   *)
(* slashes.                                                                *)
(***************************************************************************)
\* The protocol the parser reports for a scheme as written (lower-cased, with its colon).
ProtocolOf == ("https" :> "https:") @@ ("HTTPS" :> "https:") @@ ("http" :> "http:") @@
              ("ftp" :> "ftp:")
SchemeOf == ("https:" :> "https") @@ ("http:" :> "http") @@ ("ftp:" :> "ftp")

NoUrl == [ok |-> FALSE, protocol |-> "", hostname |-> <<>>, pathname |-> <<>>]

\* The parser's removal of "." and ".." segments.
RECURSIVE RemoveDotSegments(_, _)
RemoveDotSegments(segs, acc) ==
    IF segs = <<>> THEN acc
    ELSE LET s == Head(segs)
             last == Len(segs) = 1
             popped == IF acc = <<>> THEN acc ELSE SubSeq(acc, 1, Len(acc) - 1)
         IN  IF s = ".."
             THEN RemoveDotSegments(Tail(segs), IF last THEN Append(popped, "") ELSE popped)
             ELSE IF s = "."
             THEN RemoveDotSegments(Tail(segs), IF last THEN Append(acc, "") ELSE acc)
             ELSE RemoveDotSegments(Tail(segs), Append(acc, s))

\* The pathname as tokens: a "/" before every segment, "/" alone for no segment.
RECURSIVE JoinPath(_)
JoinPath(segs) ==
    IF segs = <<>> THEN <<>>
    ELSE <<"/", Head(segs)>> \o JoinPath(Tail(segs))

Pathname(segs) ==
    LET clean == RemoveDotSegments(segs, <<>>)
    IN  IF clean = <<>> THEN <<"/">> ELSE JoinPath(clean)

\* new URL(String(input)), null on failure
parseUrl(raw) ==
    IF raw.scheme \notin DOMAIN ProtocolOf \/ raw.host = <<>>
          \/ \E i \in 1..Len(raw.host) : raw.host[i] = " "
    THEN NoUrl
    ELSE [ok |-> TRUE,
          protocol |-> ProtocolOf[raw.scheme],
          hostname |-> ToLowerCase(raw.host),
          pathname |-> Pathname(raw.path)]

\* URL.prototype.toString, as the raw components it would be parsed from again
UrlToString(url) ==
    [scheme |-> SchemeOf[url.protocol],
     host |-> url.hostname,
     path |-> [i \in 1..(Len(url.pathname) \div 2) |-> url.pathname[2 * i]]]

(***************************************************************************)
(* URL policy.                                                             *)
(***************************************************************************)
isValidLinkedInPostUrl_HostSuffix(urlValue) ==
    LET url == parseUrl(urlValue)
    IN  IF ~url.ok THEN FALSE
        ELSE IF url.protocol # "https:" THEN FALSE
        ELSE IF ~EndsWith(ToLowerCase(url.hostname), SubSeq(LINKEDIN_HOST, 5, Len(LINKEDIN_HOST)))
        THEN FALSE
        ELSE \E prefix \in LINKEDIN_POST_PATH_PREFIXES : StartsWith(url.pathname, prefix)

isValidLinkedInPostUrl(urlValue) ==
    LET url == parseUrl(urlValue)
    IN  IF ~url.ok THEN FALSE
        ELSE IF url.protocol # "https:" THEN FALSE
        ELSE IF ToLowerCase(url.hostname) # LINKEDIN_HOST THEN FALSE
        ELSE \E prefix \in LINKEDIN_POST_PATH_PREFIXES : StartsWith(url.pathname, prefix)

\* [a-z0-9-] under the i flag
InHostClass(c) == ToLowerChar(c) \in LowerLetters \cup Digits \cup {"-"}

\* /^[a-z0-9-]+\.licdn\.com$/i.test(s)
MediaHostRegexTest(s) ==
    \E k \in 1..Len(s) :
        /\ \A i \in 1..k : InHostClass(s[i])
        /\ ToLowerCase(SubSeq(s, k + 1, Len(s))) = LICDN_SUFFIX

isAllowedLinkedInMediaHost_SuffixOnly(hostname) ==
    LET normalized == ToLowerCase(hostname)
    IN  EndsWith(normalized, LICDN_SUFFIX)

isAllowedLinkedInMediaHost(hostname) ==
    LET normalized == ToLowerCase(hostname)
    IN  IF ~EndsWith(normalized, LICDN_SUFFIX) THEN FALSE
        ELSE MediaHostRegexTest(normalized)

isAllowedLinkedInMediaUrl(urlValue) ==
    LET url == parseUrl(urlValue)
    IN  IF ~url.ok THEN FALSE
        ELSE IF url.protocol # "https:" THEN FALSE
        ELSE isAllowedLinkedInMediaHost(url.hostname)

(***************************************************************************)
(* State.                                                                  *)
(***************************************************************************)
VARIABLES
    \* the URL policy applied to one input
    urlIn,          \* the string given to isValidLinkedInPostUrl
    hostIn,         \* the hostname given to isAllowedLinkedInMediaHost
    urlVerdict,     \* "none" before the call, then "true" or "false"
    hostVerdict,
    \* one call of fetchWithRedirectGuard
    rgPc,           \* "idle", "call", "loop", "await", "returned", "threw"
    rgAllowed,      \* options.allowedHosts: "none", "set", "fn", "array"
    rgMax,          \* options.maxRedirects
    rgUrl,          \* currentUrl
    rgRedirects,    \* the loop counter
    rgResult,       \* what the call returned or threw
    timers,         \* ids of the requests whose setTimeout is armed
    aborted,        \* ids of the requests whose AbortController was aborted
    hops,           \* the requests of this call, in order, with what became of each
    netRequests,    \* number of requests issued so far
    \* one call of withRetries
    rtPc,           \* "idle", "loop", "task", "sleep", "returned", "threw"
    rtRetries,      \* options.retries
    rtBaseDelay,    \* options.baseDelayMs
    rtObserver,     \* options.onRetry: "none", "returns" or "throws"
    rtAttempt,      \* attempt
    rtResult,       \* what the call returned or threw
    taskPc,         \* the promise of task(attempt): "idle", "running", "fulfilled", "rejected"
    taskResult,     \* what that promise settled with
    taskLog,        \* what every call of task settled with, in order
    taskCalls,      \* number of calls of task
    sleeps,         \* the delays slept, in order
    observerCalls,  \* the arguments of every onRetry call, in order
    \* one call of scrapeLinkedInPost
    postUrl,        \* its argument
    scPc,           \* "idle", "call", "retrying", "returned", "threw"
    scResult,       \* what the call returned or threw
    soPc,           \* scrapeOnce: "idle", "fetch", "body", "native", "embeds"
    bodyOf,         \* id of the request whose response body is being read, 0 for none
    \* the extraction of one call of scrapeOnce
    page,           \* the parsed page ($)
    referers,       \* buildRefererCandidates(preferredReferer)
    ndTasks,        \* extractMediaFromNativeDocuments: one task per manifest
    imageSet,       \* its imageSet, in insertion order
    documentSet,    \* its documentSet, in insertion order
    hasFullDocumentPages,
    nativeMedia,    \* what extractMediaFromNativeDocuments returned
    emTasks,        \* extractMediaFromEmbeds: one task per frame
    secRequests,    \* number of manifest, image-manifest and frame requests issued
    logged,         \* the logError calls of the extraction: message and url
    result,         \* the object returned by scrapeOnce
    \* one call of downloadLinkedInMedia
    dlPc,           \* "idle", "call", "running", "returned"
    dlInput,        \* mediaEntries
    dlReferer,      \* options.referer
    dlServer,       \* how the media host answers: its statuses, its bodies, failures
    dlTasks,        \* one task per entry of entries
    dlRequests,     \* number of media requests issued
    dlResult,       \* the array returned
    \* one request to a webhook handler
    whReq,          \* the request and the environment: handler, method, token, body
    wh              \* the locals of the handler and what it did: pc, chatId, calls, ...

urlVars == <<urlIn, hostIn, urlVerdict, hostVerdict>>
rgVars == <<rgPc, rgAllowed, rgMax, rgUrl, rgRedirects, rgResult, timers, aborted, hops,
            netRequests>>
rtVars == <<rtPc, rtRetries, rtBaseDelay, rtObserver, rtAttempt, rtResult, taskPc, taskResult,
            taskLog, taskCalls, sleeps, observerCalls>>
scVars == <<postUrl, scPc, scResult, soPc, bodyOf>>
exVars == <<page, referers, ndTasks, imageSet, documentSet, hasFullDocumentPages, nativeMedia,
            emTasks, secRequests, logged, result>>
dlVars == <<dlPc, dlInput, dlReferer, dlServer, dlTasks, dlRequests, dlResult>>
whVars == <<whReq, wh>>
vars == <<urlVars, rgVars, rtVars, scVars, exVars, dlVars, whVars>>

Bool(b) == IF b THEN "true" ELSE "false"

(***************************************************************************)
(* Inputs.                                                                 *)
(***************************************************************************)
LinkedInCom == SubSeq(LINKEDIN_HOST, 5, Len(LINKEDIN_HOST))
MixedCaseLinkedInHost ==
    <<"W", "W", "W", ".", "L", "i", "n", "k", "e", "d", "I", "n", ".", "C", "O", "M">>
Evil == <<"e", "v", "i", "l">>
MediaHost == <<"m", "e", "d", "i", "a">> \o LICDN_SUFFIX
LookAlikeMediaHost == MediaHost \o <<".">> \o Evil

UrlHostInputs ==
    {LINKEDIN_HOST, MixedCaseLinkedInHost, LinkedInCom, LINKEDIN_HOST \o <<".">> \o Evil,
     Evil \o <<".">> \o LinkedInCom, LINKEDIN_HOST \o <<".">>, MediaHost, <<>>}
UrlSchemeInputs == {"https", "HTTPS", "http", "ftp", ""}
PathSegments == {"posts", "feed", "update", "x", "..", ""}
UrlInputs ==
    [scheme : UrlSchemeInputs, host : UrlHostInputs, path : BoundedSeq(PathSegments, MaxPathLen)]

LabelAlphabet == {"a", "Z", "7", "-", ".", "_"}
SuffixInputs ==
    {LICDN_SUFFIX, Tail(LICDN_SUFFIX),
     <<".", "L", "I", "C", "D", "N", ".", "C", "O", "M">>,
     <<".", "l", "i", "c", "d", "n", "-", "c", "o", "m">>,
     <<".", "l", "i", "c", "d", "n", ".", "c", "o">>}
TailInputs == {<<>>, <<".">>, <<".">> \o Evil}
HostInputs ==
    {label \o suffix \o tail :
        label \in BoundedSeq(LabelAlphabet, MaxLabelLen), suffix \in SuffixInputs,
        tail \in TailInputs}

NoInputUrl == [scheme |-> "", host |-> <<>>, path |-> <<>>]

(***************************************************************************)
(* The URL policy applied to an input.                                     *)
(***************************************************************************)
UrlIdle ==
    /\ urlIn = NoInputUrl
    /\ hostIn = <<>>
    /\ urlVerdict = "none"
    /\ hostVerdict = "none"

CheckPostUrl ==
    /\ urlIn # NoInputUrl
    /\ urlVerdict = "none"
    /\ urlVerdict' = Bool(isValidLinkedInPostUrl(urlIn))
    /\ UNCHANGED <<urlIn, hostIn, hostVerdict, rgVars, rtVars, scVars, exVars, dlVars, whVars>>

CheckMediaHost ==
    /\ hostIn # <<>>
    /\ hostVerdict = "none"
    /\ hostVerdict' = Bool(isAllowedLinkedInMediaHost(hostIn))
    /\ UNCHANGED <<urlIn, hostIn, urlVerdict, rgVars, rtVars, scVars, exVars, dlVars, whVars>>

RgIdle ==
    /\ rgPc = "idle"
    /\ rgAllowed = "none"
    /\ rgMax = 0
    /\ rgUrl = NoInputUrl
    /\ rgRedirects = 0
    /\ rgResult = [kind |-> "none", status |-> 0, error |-> ""]
    /\ timers = {}
    /\ aborted = {}
    /\ hops = <<>>
    /\ netRequests = 0

\* An error object: its code (or message) and the call of task that threw it, 0 when
\* it was not thrown by task.
Err(code, n) == [kind |-> "error", code |-> code, n |-> n]
Val(n) == [kind |-> "value", code |-> "", n |-> n]
Nothing == [kind |-> "none", code |-> "", n |-> 0]

RtIdle ==
    /\ rtPc = "idle"
    /\ rtRetries = 0
    /\ rtBaseDelay = 0
    /\ rtObserver = "none"
    /\ rtAttempt = 0
    /\ rtResult = Nothing
    /\ taskPc = "idle"
    /\ taskResult = Nothing
    /\ taskLog = <<>>
    /\ taskCalls = 0
    /\ sleeps = <<>>
    /\ observerCalls = <<>>

ScIdle ==
    /\ postUrl = NoInputUrl
    /\ scPc = "idle"
    /\ scResult = Nothing
    /\ soPc = "idle"
    /\ bodyOf = 0

NoMedia == [imageUrls |-> <<>>, videoUrls |-> <<>>, documentUrls |-> <<>>]
NoResultObject == [text |-> "", imageUrls |-> <<>>, videoUrls |-> <<>>, documentUrls |-> <<>>,
                   preferredReferer |-> NoInputUrl]
NoPage == [none |-> TRUE]

ExIdle ==
    /\ page = NoPage
    /\ referers = <<>>
    /\ ndTasks = <<>>
    /\ imageSet = <<>>
    /\ documentSet = <<>>
    /\ hasFullDocumentPages = FALSE
    /\ nativeMedia = NoMedia
    /\ emTasks = <<>>
    /\ secRequests = 0
    /\ logged = {}
    /\ result = NoResultObject

DlIdle ==
    /\ dlPc = "idle"
    /\ dlInput = <<>>
    /\ dlReferer = NoInputUrl
    /\ dlServer = [statuses |-> {}, bodies |-> {}, fails |-> FALSE, inOrder |-> FALSE]
    /\ dlTasks = <<>>
    /\ dlRequests = 0
    /\ dlResult = <<>>

\* No request: the locals of a handler before it is called.
NoRequest == [handler |-> "", method |-> "", token |-> FALSE, body |-> [form |-> ""]]
NoPost == [none |-> TRUE]
NoThen == [guarded |-> FALSE, failLog |-> "", next |-> ""]
WhStart ==
    [pc |-> "idle", chatId |-> "null", then |-> NoThen, post |-> NoPost, items |-> <<>>,
     index |-> 0, sent |-> FALSE, calls |-> <<>>, responses |-> <<>>, log |-> <<>>,
     scrapes |-> 0, zipped |-> <<>>, caught |-> [class |-> "", code |-> "", timeout |-> FALSE]]
WhIdle ==
    /\ whReq = NoRequest
    /\ wh = WhStart

(***************************************************************************)
(* fetchWithTimeout and fetchWithRedirectGuard.  One action runs the code  *)
(* from one await to the next; rgPc is the position of the call.           *)
(***************************************************************************)
REDIRECT_STATUSES == {301, 302, 303, 307, 308}
ServerStatuses == {200, 300, 301, 302, 307, 308, 401, 403, 404, 999}
LINKEDIN_ALLOWED_HOSTS == {LINKEDIN_HOST}
\* An allowedHosts option given as an array, its items in any letter case.
AllowedHostsArray == <<MixedCaseLinkedInHost, MediaHost>>

isHostnameAllowed(hostname, allowedHosts) ==
    LET normalized == ToLowerCase(hostname)
    IN  IF allowedHosts = "fn" THEN isAllowedLinkedInMediaHost(normalized)
        ELSE IF allowedHosts = "set" THEN normalized \in LINKEDIN_ALLOWED_HOSTS
        ELSE IF allowedHosts = "array"
        THEN \E i \in 1..Len(AllowedHostsArray) : ToLowerCase(AllowedHostsArray[i]) = normalized
        ELSE FALSE

\* The Location header of a response: absent, an absolute URL, a path ("/x"), a
\* scheme-relative reference ("//host/x") or text that no URL can be made of.
LocationInputs ==
    [kind : {"abs"}, scheme : {"https", "http"}, host : {LINKEDIN_HOST}]
    \cup [kind : {"abs"}, scheme : {"https"}, host : {MediaHost, LookAlikeMediaHost}]
    \cup [kind : {"netpath"}, scheme : {""}, host : {MediaHost, Evil}]
    \cup [kind : {"missing", "path", "invalid"}, scheme : {""}, host : {<<>>}]

\* new URL(location, parsed); NoUrl stands for the TypeError it throws
ResolveLocation(location, base) ==
    IF location.kind = "abs"
    THEN parseUrl([scheme |-> location.scheme, host |-> location.host, path |-> <<"x">>])
    ELSE IF location.kind = "netpath"
    THEN [base EXCEPT !.hostname = ToLowerCase(location.host), !.pathname = Pathname(<<"x">>)]
    ELSE IF location.kind = "path"
    THEN [base EXCEPT !.pathname = Pathname(<<"x">>)]
    ELSE NoUrl

NoResult == [kind |-> "none", status |-> 0, error |-> ""]
Response(status) == [kind |-> "response", status |-> status, error |-> ""]
Thrown(message) == [kind |-> "error", status |-> 0, error |-> message]

\* The checks at the head of an iteration; "" when the URL may be requested.
HopError_HostOnly(parsed, allowedHosts) ==
    IF ~parsed.ok THEN "Invalid URL"
    ELSE IF ~isHostnameAllowed(parsed.hostname, allowedHosts) THEN "Blocked hostname"
    ELSE ""

HopError(parsed, allowedHosts) ==
    IF ~parsed.ok THEN "Invalid URL"
    ELSE IF parsed.protocol # "https:" THEN "Only HTTPS URLs are allowed"
    ELSE IF ~isHostnameAllowed(parsed.hostname, allowedHosts) THEN "Blocked hostname"
    ELSE ""

\* The loop condition.
LoopContinues_Strict(redirects, maxRedirects) == redirects < maxRedirects

LoopContinues(redirects, maxRedirects) == redirects <= maxRedirects

\* clearTimeout(timeout) in the finally block of fetchWithTimeout
ClearTimeout_Missing(armed, id) == armed

ClearTimeout(armed, id) == armed \ {id}

RgSettled == rgPc \in {"returned", "threw"}
LastHop == hops[Len(hops)]
SettleLastHop(outcome, final, target) ==
    [hops EXCEPT ![Len(hops)] =
        [@ EXCEPT !.outcome = outcome, !.final = final, !.target = target]]

\* The entry of fetchWithRedirectGuard, up to the loop.
RgCall ==
    /\ rgPc = "call"
    /\ IF rgAllowed = "none"
       THEN /\ rgPc' = "threw"
            /\ rgResult' = Thrown("allowedHosts is required")
       ELSE /\ rgPc' = "loop"
            /\ rgResult' = rgResult
    /\ rgRedirects' = 0
    /\ hops' = <<>>
    /\ UNCHANGED <<rgAllowed, rgMax, rgUrl, timers, aborted, netRequests, urlVars, rtVars, scVars, exVars, dlVars, whVars>>

\* One iteration up to "await fetch(...)" inside fetchWithTimeout: the URL is
\* parsed and checked, the timer armed and the request sent.
RgIterate ==
    /\ rgPc = "loop"
    /\ LET parsed == parseUrl(rgUrl)
           error == HopError(parsed, rgAllowed)
           id == netRequests + 1
       IN  IF ~LoopContinues(rgRedirects, rgMax)
           THEN /\ rgPc' = "threw"
                /\ rgResult' = Thrown("Too many redirects")
                /\ UNCHANGED <<timers, hops, netRequests>>
           ELSE IF error # ""
           THEN /\ rgPc' = "threw"
                /\ rgResult' = Thrown(error)
                /\ UNCHANGED <<timers, hops, netRequests>>
           ELSE /\ rgPc' = "await"
                /\ rgResult' = rgResult
                /\ timers' = timers \cup {id}
                /\ netRequests' = id
                /\ hops' = Append(hops, [id |-> id, url |-> parsed, outcome |-> "pending",
                                         final |-> 0, target |-> NoUrl])
    /\ UNCHANGED <<rgAllowed, rgMax, rgUrl, rgRedirects, aborted, urlVars, rtVars, scVars, exVars, dlVars, whVars>>

\* The server answers the request in flight: fetch resolves, the timer is cleared,
\* and the response is returned or its redirect examined.
FetchRespond(status, location) ==
    /\ rgPc = "await"
    /\ timers' = ClearTimeout(timers, LastHop.id)
    /\ LET next == ResolveLocation(location, LastHop.url)
       IN  IF status \notin REDIRECT_STATUSES
           THEN /\ rgPc' = "returned"
                /\ rgResult' = Response(status)
                /\ hops' = SettleLastHop("response", status, NoUrl)
                /\ UNCHANGED <<rgUrl, rgRedirects>>
           ELSE IF location.kind = "missing"
           THEN /\ rgPc' = "threw"
                /\ rgResult' = Thrown("Redirect response missing location header")
                /\ hops' = SettleLastHop("redirect", 0, NoUrl)
                /\ UNCHANGED <<rgUrl, rgRedirects>>
           ELSE IF ~next.ok
           THEN /\ rgPc' = "threw"
                /\ rgResult' = Thrown("TypeError: Invalid URL")
                /\ hops' = SettleLastHop("redirect", 0, NoUrl)
                /\ UNCHANGED <<rgUrl, rgRedirects>>
           ELSE IF ~isHostnameAllowed(next.hostname, rgAllowed)
           THEN /\ rgPc' = "threw"
                /\ rgResult' = Thrown("Blocked redirect hostname")
                /\ hops' = SettleLastHop("redirect", 0, next)
                /\ UNCHANGED <<rgUrl, rgRedirects>>
           ELSE /\ rgPc' = "loop"
                /\ rgResult' = rgResult
                /\ hops' = SettleLastHop("redirect", 0, next)
                /\ rgUrl' = UrlToString(next)
                /\ rgRedirects' = rgRedirects + 1
    /\ UNCHANGED <<rgAllowed, rgMax, aborted, netRequests, urlVars, rtVars, scVars, exVars, dlVars, whVars>>

\* fetch rejects with a network error: it is rethrown, the timer cleared.
FetchFail ==
    /\ rgPc = "await"
    /\ timers' = ClearTimeout(timers, LastHop.id)
    /\ rgPc' = "threw"
    /\ rgResult' = Thrown("fetch failed")
    /\ hops' = SettleLastHop("error", 0, NoUrl)
    /\ UNCHANGED <<rgAllowed, rgMax, rgUrl, rgRedirects, aborted, netRequests, urlVars, rtVars, scVars, exVars, dlVars, whVars>>

\* A timer fires: controller.abort().  The fetch it belongs to, if still awaited,
\* rejects with an AbortError, which fetchWithTimeout turns into its timeout error.
TimerFire(id) ==
    /\ id \in timers
    /\ timers' = timers \ {id}
    /\ aborted' = aborted \cup {id}
    /\ IF rgPc = "await" /\ LastHop.id = id
       THEN /\ rgPc' = "threw"
            /\ rgResult' = Thrown("Request timeout")
            /\ hops' = SettleLastHop("timeout", 0, NoUrl)
       ELSE UNCHANGED <<rgPc, rgResult, hops>>
    /\ UNCHANGED <<rgAllowed, rgMax, rgUrl, rgRedirects, netRequests, urlVars, rtVars, scVars, exVars, dlVars, whVars>>

FetchUrlInputs ==
    {[scheme |-> "https", host |-> LINKEDIN_HOST, path |-> <<"posts", "x">>],
     [scheme |-> "http", host |-> LINKEDIN_HOST, path |-> <<"posts", "x">>],
     [scheme |-> "HTTPS", host |-> MixedCaseLinkedInHost, path |-> <<"posts", "x">>],
     [scheme |-> "https", host |-> MediaHost, path |-> <<"x">>],
     [scheme |-> "https", host |-> LookAlikeMediaHost, path |-> <<"x">>],
     [scheme |-> "", host |-> <<"x">>, path |-> <<>>]}

InitFetch ==
    /\ WhIdle
    /\ UrlIdle
    /\ RtIdle
    /\ ScIdle
    /\ ExIdle
    /\ DlIdle
    /\ rgPc = "call"
    /\ rgAllowed \in {"none", "set", "fn", "array"}
    /\ rgMax \in 0..MaxRedirectsBound
    /\ rgUrl \in FetchUrlInputs
    /\ rgRedirects = 0
    /\ rgResult = NoResult
    /\ timers = {}
    /\ aborted = {}
    /\ hops = <<>>
    /\ netRequests = 0

NextFetch ==
    \/ RgCall
    \/ RgIterate
    \/ \E status \in ServerStatuses, location \in LocationInputs : FetchRespond(status, location)
    \/ FetchFail
    \/ \E id \in timers : TimerFire(id)

SpecFetch == InitFetch /\ [][NextFetch]_vars

(***************************************************************************)
(* withRetries.                                                            *)
(***************************************************************************)
\* baseDelayMs * (attempt + 1)
RetryDelay_FromZero(baseDelayMs, attempt) == baseDelayMs * attempt

RetryDelay(baseDelayMs, attempt) == baseDelayMs * (attempt + 1)

\* The head of the while loop, up to "await task(attempt)".
RtAttempt ==
    /\ rtPc = "loop"
    /\ IF rtAttempt <= rtRetries
       THEN /\ rtPc' = "task"
            /\ taskPc' = "running"
            /\ taskCalls' = taskCalls + 1
            /\ rtResult' = rtResult
       ELSE /\ rtPc' = "threw"
            /\ rtResult' = Err("Retry logic exhausted unexpectedly", 0)
            /\ UNCHANGED <<taskPc, taskCalls>>
    /\ UNCHANGED <<rtRetries, rtBaseDelay, rtObserver, rtAttempt, taskResult, taskLog, sleeps,
                   observerCalls, urlVars, rgVars, scVars, exVars, dlVars, whVars>>

\* The promise of task has settled: return its value, or run the catch block up to
\* "await sleep(...)".
RtSettled ==
    /\ rtPc = "task"
    /\ taskPc \in {"fulfilled", "rejected"}
    /\ taskPc' = "idle"
    /\ IF taskPc = "fulfilled"
       THEN /\ rtPc' = "returned"
            /\ rtResult' = taskResult
            /\ UNCHANGED <<sleeps, observerCalls>>
       ELSE IF rtAttempt >= rtRetries
       THEN /\ rtPc' = "threw"
            /\ rtResult' = taskResult
            /\ UNCHANGED <<sleeps, observerCalls>>
       ELSE /\ observerCalls' =
                  IF rtObserver = "none" THEN observerCalls
                  ELSE Append(observerCalls, [error |-> taskResult, attempt |-> rtAttempt + 1])
            /\ IF rtObserver = "throws"
               THEN /\ rtPc' = "threw"
                    /\ rtResult' = Err("thrown by onRetry", 0)
                    /\ sleeps' = sleeps
               ELSE /\ rtPc' = "sleep"
                    /\ rtResult' = rtResult
                    /\ sleeps' = Append(sleeps, RetryDelay(rtBaseDelay, rtAttempt))
    /\ UNCHANGED <<rtRetries, rtBaseDelay, rtObserver, rtAttempt, taskResult, taskLog, taskCalls,
                   urlVars, rgVars, scVars, exVars, dlVars, whVars>>

\* The sleep ends: attempt += 1, back to the loop condition.
RtWake ==
    /\ rtPc = "sleep"
    /\ rtPc' = "loop"
    /\ rtAttempt' = rtAttempt + 1
    /\ UNCHANGED <<rtRetries, rtBaseDelay, rtObserver, rtResult, taskPc, taskResult, taskLog,
                   taskCalls, sleeps, observerCalls, urlVars, rgVars, scVars, exVars, dlVars, whVars>>

RtSettledCall == rtPc \in {"returned", "threw"}

\* The promise of a call of task settles with r.
SettleTask(r) ==
    /\ taskPc' = (IF r.kind = "value" THEN "fulfilled" ELSE "rejected")
    /\ taskResult' = r
    /\ taskLog' = Append(taskLog, r)

\* A task given to withRetries directly: any call of it may succeed or fail.
TaskSucceeds ==
    /\ taskPc = "running"
    /\ scPc = "idle"
    /\ SettleTask(Val(taskCalls))
    /\ UNCHANGED <<rtPc, rtRetries, rtBaseDelay, rtObserver, rtAttempt, rtResult, taskCalls,
                   sleeps, observerCalls, urlVars, rgVars, scVars, exVars, dlVars, whVars>>

TaskFails ==
    /\ taskPc = "running"
    /\ scPc = "idle"
    /\ SettleTask(Err("task failed", taskCalls))
    /\ UNCHANGED <<rtPc, rtRetries, rtBaseDelay, rtObserver, rtAttempt, rtResult, taskCalls,
                   sleeps, observerCalls, urlVars, rgVars, scVars, exVars, dlVars, whVars>>

BaseDelayInputs == {0, 400}

InitRetry ==
    /\ WhIdle
    /\ UrlIdle
    /\ RgIdle
    /\ ScIdle
    /\ ExIdle
    /\ DlIdle
    /\ rtPc = "loop"
    /\ rtRetries \in (-1)..MaxRetriesBound
    /\ rtBaseDelay \in BaseDelayInputs
    /\ rtObserver \in {"none", "returns", "throws"}
    /\ rtAttempt = 0
    /\ rtResult = Nothing
    /\ taskPc = "idle"
    /\ taskResult = Nothing
    /\ taskLog = <<>>
    /\ taskCalls = 0
    /\ sleeps = <<>>
    /\ observerCalls = <<>>

NextRetry == RtAttempt \/ TaskSucceeds \/ TaskFails \/ RtSettled \/ RtWake

SpecRetry == InitRetry /\ [][NextRetry]_vars

(***************************************************************************)
(* The parsed page.  A text is a whole string: what the code asks of it is *)
(* whether it is empty after normalizeWhitespace and which of the phrases  *)
(* it looks for occur in it.  A set of URLs is the sequence of its         *)
(* elements in insertion order, as a JavaScript Set iterates them.         *)
(***************************************************************************)
MAX_MEDIA_COUNT == 40
EMBED_FETCH_CONCURRENCY == 2
MAX_EMBED_FETCHES == 3

Range(seq) == {seq[i] : i \in DOMAIN seq}
MinOf(a, b) == IF a <= b THEN a ELSE b

\* Array.prototype.slice(0, n)
Slice_All(seq, n) == seq

Slice(seq, n) == SubSeq(seq, 1, MinOf(n, Len(seq)))

\* The elements of seq at the indices in idx, in order.
Pick(seq, idx) ==
    [k \in 1..Cardinality(idx) |->
        seq[CHOOSE i \in idx : Cardinality({j \in idx : j < i}) = k - 1]]

\* new Set([...]) of an array: the first occurrence of every element, in order
NewSet_Keep(seq) == seq

NewSet(seq) == Pick(seq, {i \in DOMAIN seq : \A j \in 1..(i - 1) : seq[j] # seq[i]})

\* Array.prototype.filter with a predicate on URLs given as the set it holds on
FilterSeq(seq, keep) == Pick(seq, {i \in DOMAIN seq : seq[i] \in keep})

\* String.prototype.includes on a pathname given as tokens
SeqIncludes(s, sub) ==
    \E i \in 0..(Len(s) - Len(sub)) : SubSeq(s, i + 1, i + Len(sub)) = sub

\* The texts of the inputs: what normalizeWhitespace makes of each, and the phrases
\* the lower-cased text includes.
WhitespaceNormalForm == (" " :> "") @@ ("  Hello " :> "Hello")
PhrasesOf ==
    ("Sign in to view" :> {"sign in"}) @@ ("Join LinkedIn" :> {"join linkedin"}) @@
    ("LinkedIn Login" :> {"linkedin login"}) @@
    ("LinkedIn: Log In" :> {"log in", "linkedin: log in"})

normalizeWhitespace(value) ==
    IF value \in DOMAIN WhitespaceNormalForm THEN WhitespaceNormalForm[value] ELSE value

\* text.toLowerCase().includes(phrase)
LowerIncludes(text, phrase) == text \in DOMAIN PhrasesOf /\ phrase \in PhrasesOf[text]

hasAuthWall(p) ==
    LET title == normalizeWhitespace(p.title)
        ogTitle == normalizeWhitespace(p.ogTitle)
    IN  \E phrase \in {"sign in", "log in", "join linkedin", "linkedin login"} :
            LowerIncludes(title, phrase) \/ LowerIncludes(ogTitle, phrase)

isLowValueFallbackText(text) ==
    LET normalized == normalizeWhitespace(text)
    IN  IF normalized = "" THEN TRUE
        ELSE \E phrase \in {"join linkedin", "sign in", "log in", "linkedin: log in"} :
                LowerIncludes(normalized, phrase)

\* The first candidate that is not empty and not a placeholder, "" when none is.
RECURSIVE FirstUsableText(_)
FirstUsableText(candidates) ==
    IF candidates = <<>> THEN ""
    ELSE LET text == normalizeWhitespace(Head(candidates))
         IN  IF text # "" /\ ~isLowValueFallbackText(text) THEN text
             ELSE FirstUsableText(Tail(candidates))

\* No JSON-LD object of a post type on the page.
NoSchema == [none |-> TRUE]

extractTextFromSchema(primarySchema) ==
    IF primarySchema = NoSchema THEN ""
    ELSE FirstUsableText(<<primarySchema.articleBody, primarySchema.description,
                           primarySchema.text, primarySchema.headline, primarySchema.name>>)

\* ogDescription || ogTitle
OgFallback(ogDescription, ogTitle) == IF ogDescription # "" THEN ogDescription ELSE ogTitle

extractPostText(p) ==
    LET commentary == FirstUsableText(<<p.mainCommentary>> \o p.selectorTexts)
        fallback == OgFallback(normalizeWhitespace(p.ogDescription), normalizeWhitespace(p.ogTitle))
    IN  IF commentary # "" THEN commentary
        ELSE IF isLowValueFallbackText(fallback) THEN ""
        ELSE fallback

\* const text = extractTextFromSchema(primarySchema) || extractPostText($)
PostText(p) ==
    LET schemaText == extractTextFromSchema(p.primarySchema)
    IN  IF schemaText # "" THEN schemaText ELSE extractPostText(p)

(***************************************************************************)
(* Media URLs.                                                             *)
(***************************************************************************)
EXCLUDED_IMAGE_URL_HINTS ==
    {"profile-displayphoto", "company-logo", "school-logo", "profile-framedphoto", "ghost-person"}
COVER_IMAGE_HINT == "feedshare-document-cover-images_"

\* https://media.licdn.com/dms/<kind>/<n>
MediaUrl(kind, n) == [scheme |-> "https", host |-> MediaHost, path |-> <<"dms", kind, ToString(n)>>]
\* https://media.licdn.com/dms/image/feedshare-document-cover-images_/<n>
CoverUrl(n) ==
    [scheme |-> "https", host |-> MediaHost, path |-> <<"dms", "image", COVER_IMAGE_HINT, ToString(n)>>]
\* https://media.licdn.com/embeds/native-document/<n>
FrameUrl(n) ==
    [scheme |-> "https", host |-> MediaHost, path |-> <<"embeds", "native-document", ToString(n)>>]
\* https://evil/dms/<kind>/<n>
ForeignUrl(kind, n) == [scheme |-> "https", host |-> Evil, path |-> <<"dms", kind, ToString(n)>>]
MediaUrls(kind, from, to) == [i \in 1..(to - from + 1) |-> MediaUrl(kind, from + i - 1)]

\* hasAnyHint: a hint occurs in the pathname
hasAnyHint(pathname, hints) == \E i \in DOMAIN pathname : pathname[i] \in hints

PathnameOf(urlValue) == LET parsed == parseUrl(urlValue) IN IF parsed.ok THEN parsed.pathname ELSE <<>>

isLikelyImageMediaPath(pathname) ==
    IF ~SeqIncludes(pathname, <<"/", "dms", "/", "image", "/">>) THEN FALSE
    ELSE ~hasAnyHint(pathname, EXCLUDED_IMAGE_URL_HINTS)

isLikelyVideoMediaPath(pathname) ==
    \/ SeqIncludes(pathname, <<"/", "dms", "/", "video", "/">>)
    \/ SeqIncludes(pathname, <<"/", "dms", "/", "videoplayback", "/">>)
    \/ SeqIncludes(pathname, <<"/", "playlist", "/", "vid", "/">>)

isLikelyDocumentMediaPath(pathname) == SeqIncludes(pathname, <<"/", "dms", "/", "document", "/">>)

\* addCandidateUrl(urlSet, rawUrl): the set after the call.  A value that does not
\* parse on its own is resolved against https://www.linkedin.com, which the
\* validator rejects.
addCandidateUrl(urlSet, rawUrl) ==
    LET parsed == parseUrl(rawUrl)
    IN  IF rawUrl = NoInputUrl \/ ~parsed.ok THEN urlSet
        ELSE LET normalized == UrlToString(parsed)
             IN  IF isAllowedLinkedInMediaUrl(normalized) /\ normalized \notin Range(urlSet)
                 THEN Append(urlSet, normalized)
                 ELSE urlSet

RECURSIVE addCandidateUrls(_, _)
addCandidateUrls(urlSet, rawUrls) ==
    IF rawUrls = <<>> THEN urlSet
    ELSE LET added == addCandidateUrl(urlSet, Head(rawUrls))
         \* each call returns before the next is made
         IN  IF Len(added) = 0 THEN addCandidateUrls(<<>>, Tail(rawUrls))
             ELSE addCandidateUrls(added, Tail(rawUrls))

ImagePaths(urls) == {u \in Range(urls) : isLikelyImageMediaPath(PathnameOf(u))}
VideoPaths(urls) == {u \in Range(urls) : isLikelyVideoMediaPath(PathnameOf(u))}
DocumentPaths(urls) == {u \in Range(urls) : isLikelyDocumentMediaPath(PathnameOf(u))}

(***************************************************************************)
(* Referers.  A referer is an origin followed by "/": a URL without path.  *)
(***************************************************************************)
AeHost == <<"a", "e", ".">> \o LinkedInCom
UkHost == <<"u", "k", ".">> \o LinkedInCom
Origin(host) == [scheme |-> "https", host |-> host, path |-> <<>>]
DEFAULT_LINKEDIN_REFERERS == <<Origin(LINKEDIN_HOST), Origin(AeHost)>>

normalizeReferer(refererValue) ==
    LET parsed == parseUrl(refererValue)
    IN  IF ~parsed.ok \/ parsed.protocol # "https:" THEN NoInputUrl
        ELSE [scheme |-> SchemeOf[parsed.protocol], host |-> parsed.hostname, path |-> <<>>]

\* The loop over DEFAULT_LINKEDIN_REFERERS of buildRefererCandidates.
RECURSIVE PushFallbacks(_, _)
PushFallbacks(candidates, fallbacks) ==
    IF fallbacks = <<>> THEN candidates
    ELSE LET normalized == normalizeReferer(Head(fallbacks))
         IN  PushFallbacks(IF normalized # NoInputUrl /\ normalized \notin Range(candidates)
                           THEN Append(candidates, normalized) ELSE candidates,
                           Tail(fallbacks))

buildRefererCandidates(preferredReferer) ==
    LET normalizedPreferred == normalizeReferer(preferredReferer)
    IN  PushFallbacks(IF normalizedPreferred # NoInputUrl THEN <<normalizedPreferred>> ELSE <<>>,
                      DEFAULT_LINKEDIN_REFERERS)

\* The page's canonical URL when it is an https URL, the post URL otherwise.
extractCanonicalUrl(p, fallbackUrl) ==
    LET candidate == IF p.canonical # NoInputUrl THEN p.canonical ELSE fallbackUrl
        parsed == parseUrl(candidate)
    IN  IF ~parsed.ok \/ parsed.protocol # "https:" THEN fallbackUrl ELSE UrlToString(parsed)

\* `${parsed.origin}/`
extractPostReferer(canonicalUrl) ==
    LET parsed == parseUrl(canonicalUrl)
    IN  IF ~parsed.ok THEN NoInputUrl
        ELSE [scheme |-> SchemeOf[parsed.protocol], host |-> parsed.hostname, path |-> <<>>]

(***************************************************************************)
(* p-limit: limit(fn) queues fn; the queued functions are started in order *)
(* while fewer than the limit are running, at once when the queue is built *)
(* and whenever a running one ends.  A task is a record whose pc is        *)
(* "queued" before it starts and "done" after it ended.                    *)
(***************************************************************************)
Running(tasks) == {i \in DOMAIN tasks : tasks[i].pc \notin {"queued", "done"}}
Queued(tasks) == {i \in DOMAIN tasks : tasks[i].pc = "queued"}

LimitAdmits_Unlimited(activeCount, concurrency) == TRUE

LimitAdmits(activeCount, concurrency) == activeCount < concurrency

RECURSIVE Admit(_, _, _)
Admit(tasks, concurrency, startPc) ==
    IF Queued(tasks) = {} \/ ~LimitAdmits(Cardinality(Running(tasks)), concurrency) THEN tasks
    ELSE LET i == CHOOSE q \in Queued(tasks) : \A r \in Queued(tasks) : q <= r
         IN  Admit([tasks EXCEPT ![i].pc = startPc], concurrency, startPc)

\* The number of tasks that Admit has started.
Started(before, after) == Cardinality(Running(after)) - Cardinality(Running(before))

AllDone(tasks) == \A i \in DOMAIN tasks : tasks[i].pc = "done"

(***************************************************************************)
(* extractMediaFromNativeDocuments.                                        *)
(***************************************************************************)
pickManifestUrl(doc) ==
    LET Usable(candidate) ==
            LET parsed == parseUrl(candidate)
            IN  parsed.ok /\ parsed.protocol = "https:" /\ isAllowedLinkedInMediaHost(parsed.hostname)
    IN  IF Usable(doc.manifestUrl) THEN UrlToString(parseUrl(doc.manifestUrl))
        ELSE IF Usable(doc.url) THEN UrlToString(parseUrl(doc.url))
        ELSE NoInputUrl

\* The resolution the sorted list finds first with a width of 480 or more, else the
\* widest; the sort is stable.
pickImageManifestUrl(manifestPayload) ==
    LET pr == manifestPayload.perResolutions
        Before(i, j) == pr[i].width < pr[j].width \/ (pr[i].width = pr[j].width /\ i <= j)
        wide == {i \in DOMAIN pr : pr[i].width >= 480}
        preferred == CHOOSE i \in wide : \A j \in wide : Before(i, j)
        last == CHOOSE i \in DOMAIN pr : \A j \in DOMAIN pr : Before(j, i)
    IN  IF pr = <<>> THEN NoInputUrl
        ELSE IF wide # {} /\ pr[preferred].imageManifestUrl # NoInputUrl
        THEN pr[preferred].imageManifestUrl
        ELSE pr[last].imageManifestUrl

\* The loop over documentConfigs: cover pages, transcribed documents, manifests.
RECURSIVE CoverImages(_, _)
CoverImages(configs, urlSet) ==
    IF configs = <<>> THEN urlSet
    ELSE CoverImages(Tail(configs), addCandidateUrls(urlSet, Head(configs).coverPages))

RECURSIVE ConfigDocuments(_, _)
ConfigDocuments(configs, urlSet) ==
    IF configs = <<>> THEN urlSet
    ELSE ConfigDocuments(Tail(configs),
                         addCandidateUrl(urlSet, Head(configs).transcribedDocumentUrl))

RECURSIVE ManifestSet(_, _)
ManifestSet(configs, urlSet) ==
    IF configs = <<>> THEN urlSet
    ELSE LET manifestUrl == pickManifestUrl(Head(configs))
         IN  ManifestSet(Tail(configs),
                         IF manifestUrl # NoInputUrl /\ manifestUrl \notin Range(urlSet)
                         THEN Append(urlSet, manifestUrl) ELSE urlSet)

\* [...manifestSet].slice(0, MAX_EMBED_FETCHES)
Manifests(p) == Slice(ManifestSet(p.configs, <<>>), MAX_EMBED_FETCHES)

\* The images left by the filter on cover pages.
FilteredImages(images, fullPages) ==
    FilterSeq(images, {u \in Range(images) :
                          ~fullPages \/ ~hasAnyHint(PathnameOf(u), {COVER_IMAGE_HINT})})

\* What extractMediaFromNativeDocuments returns.
NativeResult(images, documents, fullPages) ==
    [imageUrls |-> Slice(FilterSeq(FilteredImages(images, fullPages),
                                   ImagePaths(images)), MAX_MEDIA_COUNT),
     videoUrls |-> <<>>,
     documentUrls |-> Slice(FilterSeq(documents, DocumentPaths(documents)), MAX_MEDIA_COUNT)]

EmptyPayload == [transcribedDocumentUrl |-> NoInputUrl, downloadUrl |-> NoInputUrl,
                 perResolutions |-> <<>>]
ManifestPayloadOf(p, url) ==
    IF url \in DOMAIN p.manifestPayloads THEN p.manifestPayloads[url] ELSE EmptyPayload
ImageManifestPagesOf(p, url) ==
    IF url \in DOMAIN p.imageManifestPages THEN p.imageManifestPages[url] ELSE <<>>

LogEntry_NoMessage(message, url) == [message |-> "", url |-> url]

LogEntry(message, url) == [message |-> message, url |-> url]

(***************************************************************************)
(* extractMediaFromEmbeds.                                                 *)
(***************************************************************************)
extractEmbedFrameUrls(p) ==
    LET frameSet == addCandidateUrls(<<>>, p.frameCandidates)
    IN  Slice(FilterSeq(frameSet,
                        {u \in Range(frameSet) :
                            /\ isAllowedLinkedInMediaUrl(u)
                            /\ SeqIncludes(PathnameOf(u), <<"/", "embeds", "/">>)}),
              MAX_EMBED_FETCHES)

\* The candidates of the embedded document, each put in the first class its path
\* is likely of.
extractMediaFromEmbedDom(candidates) ==
    LET candidateSet == addCandidateUrls(<<>>, candidates)
        images == ImagePaths(candidateSet)
        videos == VideoPaths(candidateSet) \ images
        documents == DocumentPaths(candidateSet) \ (images \cup videos)
    IN  [imageUrls |-> Slice(FilterSeq(candidateSet, images), MAX_MEDIA_COUNT),
         videoUrls |-> Slice(FilterSeq(candidateSet, videos), MAX_MEDIA_COUNT),
         documentUrls |-> Slice(FilterSeq(candidateSet, documents), MAX_MEDIA_COUNT)]

FrameDocumentOf(p, url) == IF url \in DOMAIN p.frameDocuments THEN p.frameDocuments[url] ELSE <<>>

\* The union of the results of the frames, in the order of the frames.
RECURSIVE ConcatMedia(_, _)
ConcatMedia(tasks, kind) ==
    IF tasks = <<>> THEN <<>> ELSE Head(tasks).media[kind] \o ConcatMedia(Tail(tasks), kind)

EmbedResult(tasks) ==
    [imageUrls |-> Slice(NewSet(ConcatMedia(tasks, "imageUrls")), MAX_MEDIA_COUNT),
     videoUrls |-> Slice(NewSet(ConcatMedia(tasks, "videoUrls")), MAX_MEDIA_COUNT),
     documentUrls |-> Slice(NewSet(ConcatMedia(tasks, "documentUrls")), MAX_MEDIA_COUNT)]

extractOgImageFallback(p) ==
    LET ogSet == addCandidateUrls(<<>>, p.ogImages)
    IN  Slice(FilterSeq(ogSet, ImagePaths(ogSet)), MAX_MEDIA_COUNT)

\* The object scrapeOnce returns for a page with text.
MergedResult(p, text, native, embed, preferredReferer) ==
    LET imageSet0 == NewSet(p.schemaMedia.imageUrls \o p.pageImageUrls \o native.imageUrls
                            \o embed.imageUrls)
        videoSet == NewSet(p.schemaMedia.videoUrls \o p.pageVideoUrls \o native.videoUrls
                           \o embed.videoUrls)
        docSet == NewSet(p.schemaMedia.documentUrls \o p.pageDocumentUrls \o native.documentUrls
                         \o embed.documentUrls)
        images == IF imageSet0 = <<>> /\ videoSet = <<>> /\ docSet = <<>>
                  THEN NewSet(extractOgImageFallback(p)) ELSE imageSet0
    IN  [text |-> text,
         imageUrls |-> Slice(images, MAX_MEDIA_COUNT),
         videoUrls |-> Slice(videoSet, MAX_MEDIA_COUNT),
         documentUrls |-> Slice(docSet, MAX_MEDIA_COUNT),
         preferredReferer |-> preferredReferer]

(***************************************************************************)
(* scrapeLinkedInPost and scrapeOnce.                                      *)
(***************************************************************************)
RETRY_COUNT == 2
DefaultBaseDelayMs == 400
ScrapeMaxRedirects == 2
PRIVATE_STATUSES_Without999 == {401, 403}
PRIVATE_STATUSES == {401, 403, 999}

\* response.ok
ResponseOk(status) == status >= 200 /\ status <= 299

\* Whether assertValidLinkedInPostUrl throws.
assertValidLinkedInPostUrl_NeverThrows(urlValue) == FALSE

assertValidLinkedInPostUrl(urlValue) == ~isValidLinkedInPostUrl(urlValue)

(***************************************************************************)
(* Pages given to scrapeOnce, with the documents behind their manifest and *)
(* frame URLs.                                                             *)
(***************************************************************************)
Schema(articleBody, description, name) ==
    [articleBody |-> articleBody, description |-> description, text |-> "", headline |-> "",
     name |-> name]
Config(coverPages, transcribedDocumentUrl, manifestUrl, url) ==
    [coverPages |-> coverPages, transcribedDocumentUrl |-> transcribedDocumentUrl,
     manifestUrl |-> manifestUrl, url |-> url]
Payload(transcribedDocumentUrl, downloadUrl, perResolutions) ==
    [transcribedDocumentUrl |-> transcribedDocumentUrl, downloadUrl |-> downloadUrl,
     perResolutions |-> perResolutions]
Resolution(width, imageManifestUrl) == [width |-> width, imageManifestUrl |-> imageManifestUrl]

BlankPage ==
    [title |-> "Post", ogTitle |-> "", ogDescription |-> "", primarySchema |-> NoSchema,
     mainCommentary |-> "", selectorTexts |-> <<"", "">>, canonical |-> NoInputUrl,
     schemaMedia |-> NoMedia, pageImageUrls |-> <<>>, pageVideoUrls |-> <<>>,
     pageDocumentUrls |-> <<>>, configs |-> <<>>, frameCandidates |-> <<>>, ogImages |-> <<>>,
     manifestPayloads |-> <<>>, imageManifestPages |-> <<>>, frameDocuments |-> <<>>]

TitleInputs == {"Post", "LinkedIn Login"}
OgTitleInputs == {"", "OG title", "Sign in to view"}
OgDescriptionInputs == {"", " ", "OG description", "Join LinkedIn"}
SchemaInputs ==
    {NoSchema, Schema("", " ", ""), Schema("Sign in to view", "", "Schema name"),
     Schema("  Hello ", "Schema description", "Schema name")}
CommentaryInputs == {"", "Commentary", "LinkedIn: Log In"}
SelectorTextInputs == {<<"", "">>, <<"Sign in to view", "Selector text">>}

\* Pages that differ in their texts and hold no media.
TextPages ==
    {[BlankPage EXCEPT !.title = t, !.ogTitle = ot, !.ogDescription = od, !.primarySchema = s,
                       !.mainCommentary = c, !.selectorTexts = sel] :
        t \in TitleInputs, ot \in OgTitleInputs, od \in OgDescriptionInputs, s \in SchemaInputs,
        c \in CommentaryInputs, sel \in SelectorTextInputs}

TextPage == [BlankPage EXCEPT !.mainCommentary = "Commentary"]

\* More than MAX_MEDIA_COUNT images, videos and documents, found by two strategies
\* whose findings overlap.
CrowdedPage ==
    [TextPage EXCEPT
        !.schemaMedia = [imageUrls |-> MediaUrls("image", 1, MAX_MEDIA_COUNT),
                         videoUrls |-> MediaUrls("video", 1, 2),
                         documentUrls |-> MediaUrls("document", 1, MAX_MEDIA_COUNT)],
        !.pageImageUrls = MediaUrls("image", MAX_MEDIA_COUNT - 3, MAX_MEDIA_COUNT + 2),
        !.pageVideoUrls = MediaUrls("video", 2, MAX_MEDIA_COUNT + 1),
        !.pageDocumentUrls = MediaUrls("document", 1, 3),
        !.configs = <<Config(<<CoverUrl(1)>>, MediaUrl("document", 1),
                             MediaUrl("manifest", 1), NoInputUrl)>>,
        !.manifestPayloads =
            MediaUrl("manifest", 1) :>
                Payload(NoInputUrl, MediaUrl("document", MAX_MEDIA_COUNT + 1), <<>>),
        !.frameCandidates = <<FrameUrl(1)>>,
        !.frameDocuments =
            FrameUrl(1) :> <<MediaUrl("image", 1), MediaUrl("image", MAX_MEDIA_COUNT + 3),
                             MediaUrl("video", 1)>>]

\* Five document configs with four distinct manifests.  The image
\* manifest of the first manifest lists two pages, that of the second lists pages
\* that are no media URLs, that of the third is on a foreign host.
DocumentPage ==
    [TextPage EXCEPT
        !.pageImageUrls = <<MediaUrl("image", 1)>>,
        !.configs =
            <<Config(<<CoverUrl(1), CoverUrl(2)>>, MediaUrl("document", 1),
                     MediaUrl("manifest", 1), NoInputUrl),
              Config(<<CoverUrl(2)>>, NoInputUrl, ForeignUrl("manifest", 9),
                     MediaUrl("manifest", 2)),
              Config(<<>>, NoInputUrl, MediaUrl("manifest", 1), NoInputUrl),
              Config(<<>>, NoInputUrl, MediaUrl("manifest", 3), NoInputUrl),
              Config(<<>>, NoInputUrl, MediaUrl("manifest", 4), NoInputUrl)>>,
        !.manifestPayloads =
            (MediaUrl("manifest", 1) :>
                Payload(NoInputUrl, MediaUrl("document", 11),
                        <<Resolution(240, MediaUrl("imagemanifest", 10)),
                          Resolution(720, MediaUrl("imagemanifest", 1))>>)) @@
            (MediaUrl("manifest", 2) :>
                Payload(MediaUrl("document", 12), NoInputUrl,
                        <<Resolution(240, MediaUrl("imagemanifest", 2))>>)) @@
            (MediaUrl("manifest", 3) :>
                Payload(NoInputUrl, NoInputUrl,
                        <<Resolution(480, ForeignUrl("imagemanifest", 3))>>)) @@
            (MediaUrl("manifest", 4) :>
                Payload(MediaUrl("document", 14), NoInputUrl, <<>>)),
        !.imageManifestPages =
            (MediaUrl("imagemanifest", 1) :> <<MediaUrl("image", 11), MediaUrl("image", 12)>>) @@
            (MediaUrl("imagemanifest", 2) :> <<ForeignUrl("image", 21)>>)]

\* Five frame candidates, four of them distinct frames.
FramesPage ==
    [TextPage EXCEPT
        !.pageVideoUrls = <<MediaUrl("video", 31)>>,
        !.frameCandidates = <<FrameUrl(1), FrameUrl(2), MediaUrl("image", 5), FrameUrl(1),
                              FrameUrl(3), FrameUrl(4)>>,
        !.frameDocuments =
            (FrameUrl(1) :> <<MediaUrl("image", 31), MediaUrl("video", 31)>>) @@
            (FrameUrl(2) :> <<MediaUrl("document", 32), MediaUrl("image", 31)>>) @@
            (FrameUrl(3) :> <<MediaUrl("image", 33)>>) @@
            (FrameUrl(4) :> <<MediaUrl("image", 34)>>)]

\* One document config whose image manifest lists no page, one frame, a canonical
\* URL on another LinkedIn host, and an Open-Graph image.
SmallPage ==
    [TextPage EXCEPT
        !.canonical = [scheme |-> "https", host |-> UkHost, path |-> <<"posts", "x">>],
        !.configs = <<Config(<<CoverUrl(1)>>, NoInputUrl, MediaUrl("manifest", 1), NoInputUrl)>>,
        !.manifestPayloads =
            MediaUrl("manifest", 1) :>
                Payload(MediaUrl("document", 11), NoInputUrl,
                        <<Resolution(720, MediaUrl("imagemanifest", 1))>>),
        !.frameCandidates = <<FrameUrl(1)>>,
        !.frameDocuments = FrameUrl(1) :> <<MediaUrl("video", 31)>>,
        !.ogImages = <<MediaUrl("image", 99)>>]

\* No media but an Open-Graph image.
OgImagePage == [TextPage EXCEPT !.ogImages = <<MediaUrl("image", 99), ForeignUrl("image", 98)>>]

\* Two document configs whose image manifests list, together, more than
\* MAX_MEDIA_COUNT pages.
LongDocumentPage ==
    [TextPage EXCEPT
        !.configs =
            <<Config(<<CoverUrl(1)>>, NoInputUrl, MediaUrl("manifest", 5), NoInputUrl),
              Config(<<>>, NoInputUrl, MediaUrl("manifest", 6), NoInputUrl)>>,
        !.manifestPayloads =
            (MediaUrl("manifest", 5) :>
                Payload(NoInputUrl, MediaUrl("document", 15),
                        <<Resolution(720, MediaUrl("imagemanifest", 5))>>)) @@
            (MediaUrl("manifest", 6) :>
                Payload(NoInputUrl, MediaUrl("document", 16),
                        <<Resolution(720, MediaUrl("imagemanifest", 6))>>)),
        !.imageManifestPages =
            (MediaUrl("imagemanifest", 5) :> MediaUrls("image", 101, 100 + MAX_MEDIA_COUNT - 10)) @@
            (MediaUrl("imagemanifest", 6) :> MediaUrls("image", 201, 200 + MAX_MEDIA_COUNT - 10))]

MediaPages == {CrowdedPage, DocumentPage, LongDocumentPage, FramesPage, SmallPage, OgImagePage}
ExtractPageInputs == TextPages \cup MediaPages

(***************************************************************************)
(* scrapeOnce after the body of the page has arrived.                      *)
(***************************************************************************)
NdOutcomes == {"json", "badjson", "status", "error"}
EmOutcomes == {"ok", "truncated", "status", "error"}

PreferredReferer(p) == extractPostReferer(extractCanonicalUrl(p, postUrl))

\* scrapeOnce ends: it throws TEXT_NOT_FOUND or returns its object.
FinishScrape_NoTextCheck(p, native, embed) ==
    /\ soPc' = "idle"
    /\ SettleTask(Val(taskCalls))
    /\ result' = MergedResult(p, PostText(p), native, embed, PreferredReferer(p))

FinishScrape(p, native, embed) ==
    LET text == PostText(p)
    IN  /\ soPc' = "idle"
        /\ IF text = ""
           THEN /\ SettleTask(Err("TEXT_NOT_FOUND", taskCalls))
                /\ result' = NoResultObject
           ELSE /\ SettleTask(Val(taskCalls))
                /\ result' = MergedResult(p, text, native, embed, PreferredReferer(p))

\* extractMediaFromEmbeds up to "await Promise.all(tasks)", and the rest of
\* scrapeOnce when there is no frame.
StartEmbeds(p, native) ==
    LET frameUrls == extractEmbedFrameUrls(p)
        tasks == [i \in DOMAIN frameUrls |->
                     [url |-> frameUrls[i], pc |-> "queued", tried |-> <<>>, media |-> NoMedia]]
        admitted == Admit(tasks, EMBED_FETCH_CONCURRENCY, "fetch")
    IN  IF frameUrls = <<>>
        THEN /\ emTasks' = <<>>
             /\ secRequests' = secRequests
             /\ FinishScrape(p, native, NoMedia)
        ELSE /\ emTasks' = admitted
             /\ secRequests' = secRequests + Started(tasks, admitted)
             /\ soPc' = "embeds"
             /\ UNCHANGED <<result, taskPc, taskResult, taskLog>>

\* The body has arrived: the page is parsed; an authentication wall fails the
\* attempt; else the synchronous strategies run and extractMediaFromNativeDocuments
\* is called, up to its "await Promise.all(tasks)" when there is a manifest.
BodyArrives(p) ==
    /\ soPc = "body"
    /\ bodyOf' = 0
    /\ page' = p
    /\ IF hasAuthWall(p)
       THEN /\ soPc' = "idle"
            /\ SettleTask(Err("PRIVATE_OR_PROTECTED", taskCalls))
            /\ UNCHANGED <<referers, ndTasks, imageSet, documentSet, hasFullDocumentPages,
                           nativeMedia, emTasks, secRequests, result>>
       ELSE LET covers == CoverImages(p.configs, <<>>)
                documents == ConfigDocuments(p.configs, <<>>)
                manifests == Manifests(p)
                tasks == [i \in DOMAIN manifests |->
                             [url |-> manifests[i], pc |-> "queued", ref |-> 1,
                              imageManifestUrl |-> NoInputUrl, failedAt |-> ""]]
                admitted == Admit(tasks, EMBED_FETCH_CONCURRENCY, "manifest")
                native == NativeResult(covers, documents, FALSE)
            IN  /\ referers' = buildRefererCandidates(PreferredReferer(p))
                /\ imageSet' = covers
                /\ documentSet' = documents
                /\ hasFullDocumentPages' = FALSE
                /\ ndTasks' = admitted
                /\ IF manifests # <<>>
                   THEN /\ soPc' = "native"
                        /\ secRequests' = secRequests + Started(tasks, admitted)
                        /\ UNCHANGED <<nativeMedia, emTasks, result, taskPc, taskResult, taskLog>>
                   ELSE /\ nativeMedia' = native
                        /\ StartEmbeds(p, native)
    /\ UNCHANGED <<logged, postUrl, scPc, scResult, rtPc, rtRetries, rtBaseDelay, rtObserver,
                   rtAttempt, rtResult, taskCalls, sleeps, observerCalls, urlVars, rgVars, dlVars, whVars>>

\* The request of manifest task i settles: fetchMediaJson goes on to the next
\* referer or throws, or returns the payload and the task goes on; the catch block
\* of the task logs what is thrown in it.
NdRespond(i, outcome) ==
    /\ soPc = "native"
    /\ i \in DOMAIN ndTasks
    /\ ndTasks[i].pc \in {"manifest", "image"}
    /\ LET t == ndTasks[i]
           payload == ManifestPayloadOf(page, t.url)
           imageManifestUrl == pickImageManifestUrl(payload)
           manifestPages == ImageManifestPagesOf(page, t.imageManifestUrl)
           \* the task ends, after its catch block when a request of it has failed
           End(caughtAt) ==
               LET caught == caughtAt # ""
                   ended == [ndTasks EXCEPT ![i].pc = "done", ![i].failedAt = caughtAt]
                   admitted == Admit(ended, EMBED_FETCH_CONCURRENCY, "manifest")
               IN  /\ ndTasks' = admitted
                   /\ secRequests' = secRequests + Started(ended, admitted)
                   /\ logged' = IF caught
                                THEN logged \cup
                                     {LogEntry("Failed to parse native document manifest", t.url)}
                                ELSE logged
       IN  IF outcome # "json"
           THEN /\ UNCHANGED <<imageSet, documentSet, hasFullDocumentPages>>
                /\ IF t.ref < Len(referers)
                   THEN /\ ndTasks' = [ndTasks EXCEPT ![i].ref = t.ref + 1]
                        /\ secRequests' = secRequests + 1
                        /\ logged' = logged
                   ELSE End(t.pc)
           ELSE IF t.pc = "manifest"
           THEN /\ documentSet' = addCandidateUrls(documentSet,
                                      <<payload.transcribedDocumentUrl, payload.downloadUrl>>)
                /\ UNCHANGED <<imageSet, hasFullDocumentPages>>
                /\ IF imageManifestUrl = NoInputUrl THEN End("")
                   \* the guard refuses the URL under every referer, without a request
                   ELSE IF ~isAllowedLinkedInMediaUrl(imageManifestUrl) THEN End("image")
                   ELSE /\ ndTasks' = [ndTasks EXCEPT ![i] =
                                          [t EXCEPT !.pc = "image", !.ref = 1,
                                                    !.imageManifestUrl = imageManifestUrl]]
                        /\ secRequests' = secRequests + 1
                        /\ logged' = logged
           ELSE /\ hasFullDocumentPages' = (hasFullDocumentPages \/ manifestPages # <<>>)
                /\ imageSet' = addCandidateUrls(imageSet, manifestPages)
                /\ documentSet' = documentSet
                /\ End("")
    /\ UNCHANGED <<page, referers, nativeMedia, emTasks, result, urlVars, rgVars, rtVars, scVars,
                   dlVars, whVars>>

\* Promise.all(tasks) of extractMediaFromNativeDocuments resolves: it returns, and
\* extractMediaFromEmbeds is called.
NativeSettled ==
    /\ soPc = "native"
    /\ AllDone(ndTasks)
    /\ LET native == NativeResult(imageSet, documentSet, hasFullDocumentPages)
       IN  /\ nativeMedia' = native
           /\ StartEmbeds(page, native)
    /\ UNCHANGED <<page, referers, ndTasks, imageSet, documentSet, hasFullDocumentPages, logged,
                   postUrl, scPc, scResult, bodyOf, rtPc, rtRetries, rtBaseDelay, rtObserver,
                   rtAttempt, rtResult, taskCalls, sleeps, observerCalls, urlVars, rgVars, dlVars, whVars>>

\* The request of frame task i settles: with a success status the embedded document
\* is read ("truncated": reading it fails) and scanned; with another status the next
\* referer is tried, if any; what is thrown is logged by the catch block of the task.
EmRespond(i, outcome) ==
    /\ soPc = "embeds"
    /\ i \in DOMAIN emTasks
    /\ emTasks[i].pc = "fetch"
    /\ LET t == emTasks[i]
           tried == Append(t.tried, outcome)
           EndWith(media, caught) ==
               LET ended == [emTasks EXCEPT ![i] =
                                [url |-> t.url, pc |-> "done", tried |-> tried, media |-> media]]
                   admitted == Admit(ended, EMBED_FETCH_CONCURRENCY, "fetch")
               IN  /\ emTasks' = admitted
                   /\ secRequests' = secRequests + Started(ended, admitted)
                   /\ logged' = IF caught
                                THEN logged \cup {LogEntry("Failed to parse embed frame", t.url)}
                                ELSE logged
       IN  IF outcome = "ok"
           THEN EndWith(extractMediaFromEmbedDom(FrameDocumentOf(page, t.url)), FALSE)
           ELSE IF outcome = "status" /\ Len(tried) < Len(referers)
           THEN /\ emTasks' = [emTasks EXCEPT ![i].tried = tried]
                /\ secRequests' = secRequests + 1
                /\ logged' = logged
           ELSE EndWith(NoMedia, TRUE)
    /\ UNCHANGED <<page, referers, ndTasks, imageSet, documentSet, hasFullDocumentPages,
                   nativeMedia, result, urlVars, rgVars, rtVars, scVars, dlVars, whVars>>

\* Promise.all(tasks) of extractMediaFromEmbeds resolves: it returns, the results of
\* the strategies are merged and scrapeOnce ends.
EmbedsSettled ==
    /\ soPc = "embeds"
    /\ AllDone(emTasks)
    /\ FinishScrape(page, nativeMedia, EmbedResult(emTasks))
    /\ UNCHANGED <<page, referers, ndTasks, imageSet, documentSet, hasFullDocumentPages,
                   nativeMedia, emTasks, secRequests, logged, postUrl, scPc, scResult, bodyOf,
                   rtPc, rtRetries, rtBaseDelay, rtObserver, rtAttempt, rtResult, taskCalls,
                   sleeps, observerCalls, urlVars, rgVars, dlVars, whVars>>

\* The pages the server of the post answers with.  A sign-in page holds no text of
\* a post.
AuthWallPage == [BlankPage EXCEPT !.title = "LinkedIn Login", !.ogTitle = "Sign in to view"]
NoTextPage == [BlankPage EXCEPT !.ogDescription = "Join LinkedIn", !.ogImages = <<MediaUrl("image", 99)>>]
\* One document config with a manifest that names a document, and one frame.
PostPage ==
    [TextPage EXCEPT
        !.configs = <<Config(<<CoverUrl(1)>>, NoInputUrl, MediaUrl("manifest", 1), NoInputUrl)>>,
        !.manifestPayloads =
            MediaUrl("manifest", 1) :> Payload(NoInputUrl, MediaUrl("document", 11), <<>>),
        !.frameCandidates = <<FrameUrl(1)>>,
        !.frameDocuments = FrameUrl(1) :> <<MediaUrl("video", 31)>>]
PageInputs == {AuthWallPage, NoTextPage, TextPage, PostPage}

\* scrapeLinkedInPost up to its first await: the URL is validated and withRetries
\* entered.
ScrapeCall ==
    /\ scPc = "call"
    /\ IF assertValidLinkedInPostUrl(postUrl)
       THEN /\ scPc' = "threw"
            /\ scResult' = Err("INVALID_URL", 0)
            /\ UNCHANGED <<rtPc, rtRetries, rtBaseDelay, rtObserver, rtAttempt>>
       ELSE /\ scPc' = "retrying"
            /\ scResult' = scResult
            /\ rtPc' = "loop"
            /\ rtRetries' = RETRY_COUNT
            /\ rtBaseDelay' = DefaultBaseDelayMs
            /\ rtObserver' = "returns"
            /\ rtAttempt' = 0
    /\ UNCHANGED <<postUrl, soPc, bodyOf, rtResult, taskPc, taskResult, taskLog, taskCalls,
                   sleeps, observerCalls, urlVars, rgVars, exVars, dlVars, whVars>>

\* task(attempt) is scrapeOnce(postUrl): it calls fetchWithRedirectGuard.
ScrapeOnceStart ==
    /\ scPc = "retrying"
    /\ taskPc = "running"
    /\ soPc = "idle"
    /\ soPc' = "fetch"
    /\ rgPc' = "call"
    /\ rgUrl' = postUrl
    /\ rgAllowed' = "set"
    /\ rgMax' = ScrapeMaxRedirects
    /\ rgResult' = NoResult
    \* the locals of this call of scrapeOnce
    /\ page' = NoPage
    /\ referers' = <<>>
    /\ ndTasks' = <<>>
    /\ imageSet' = <<>>
    /\ documentSet' = <<>>
    /\ hasFullDocumentPages' = FALSE
    /\ nativeMedia' = NoMedia
    /\ emTasks' = <<>>
    /\ result' = NoResultObject
    /\ UNCHANGED <<rgRedirects, timers, aborted, hops, netRequests, postUrl, scPc, scResult,
                   bodyOf, rtPc, rtRetries, rtBaseDelay, rtObserver, rtAttempt, rtResult,
                   taskCalls, sleeps, observerCalls, taskPc, taskResult, taskLog, secRequests,
                   logged, urlVars, dlVars, whVars>>

\* fetchWithRedirectGuard has settled: its error is rethrown, the status of its
\* response classified, and the body of a 2xx response awaited (response.text()).
ScrapeOnceFetched ==
    /\ soPc = "fetch"
    /\ RgSettled
    /\ rgPc' = "idle"
    /\ IF rgPc = "threw"
       THEN /\ SettleTask(Err(rgResult.error, taskCalls))
            /\ soPc' = "idle"
            /\ bodyOf' = 0
       ELSE IF rgResult.status \in PRIVATE_STATUSES
       THEN /\ SettleTask(Err("PRIVATE_OR_PROTECTED", taskCalls))
            /\ soPc' = "idle"
            /\ bodyOf' = 0
       ELSE IF ~ResponseOk(rgResult.status)
       THEN /\ SettleTask(Err("SCRAPE_FAILED", taskCalls))
            /\ soPc' = "idle"
            /\ bodyOf' = 0
       ELSE /\ soPc' = "body"
            /\ bodyOf' = LastHop.id
            /\ UNCHANGED <<taskPc, taskResult, taskLog>>
    \* the locals of the finished call are gone
    /\ rgAllowed' = "none"
    /\ rgMax' = 0
    /\ rgUrl' = NoInputUrl
    /\ rgRedirects' = 0
    /\ rgResult' = NoResult
    /\ hops' = <<>>
    /\ UNCHANGED <<timers, aborted, netRequests, postUrl, scPc, scResult, rtPc, rtRetries,
                   rtBaseDelay, rtObserver, rtAttempt, rtResult, taskCalls, sleeps,
                   observerCalls, urlVars, exVars, dlVars, whVars>>

\* The connection breaks while the body is read: response.text() rejects.
BodyFails ==
    /\ soPc = "body"
    /\ soPc' = "idle"
    /\ bodyOf' = 0
    /\ SettleTask(Err("terminated", taskCalls))
    /\ UNCHANGED <<postUrl, scPc, scResult, rtPc, rtRetries, rtBaseDelay, rtObserver, rtAttempt,
                   rtResult, taskCalls, sleeps, observerCalls, urlVars, rgVars, exVars, dlVars, whVars>>

\* withRetries has settled: scrapeLinkedInPost settles with it.
ScrapeSettled ==
    /\ scPc = "retrying"
    /\ RtSettledCall
    /\ scPc' = rtPc
    /\ scResult' = rtResult
    /\ rtPc' = "idle"
    /\ UNCHANGED <<postUrl, soPc, bodyOf, rtRetries, rtBaseDelay, rtObserver, rtAttempt, rtResult,
                   taskPc, taskResult, taskLog, taskCalls, sleeps, observerCalls, urlVars,
                   rgVars, exVars, dlVars, whVars>>

ScrapeUrlInputs ==
    {[scheme |-> "https", host |-> LINKEDIN_HOST, path |-> <<"posts", "x">>],
     [scheme |-> "http", host |-> LINKEDIN_HOST, path |-> <<"posts", "x">>],
     [scheme |-> "https", host |-> LinkedInCom, path |-> <<"posts", "x">>],
     [scheme |-> "https", host |-> LINKEDIN_HOST, path |-> <<"in", "x">>],
     [scheme |-> "", host |-> <<"x">>, path |-> <<>>]}

Init ==
    /\ WhIdle
    /\ UrlIdle
    /\ RgIdle
    /\ RtIdle
    /\ ExIdle
    /\ DlIdle
    /\ postUrl \in ScrapeUrlInputs
    /\ scPc = "call"
    /\ scResult = Nothing
    /\ soPc = "idle"
    /\ bodyOf = 0

Next ==
    \/ ScrapeCall
    \/ RtAttempt
    \/ ScrapeOnceStart
    \/ RgCall
    \/ RgIterate
    \/ \E status \in ServerStatuses, location \in LocationInputs : FetchRespond(status, location)
    \/ FetchFail
    \/ \E id \in timers : TimerFire(id)
    \/ ScrapeOnceFetched
    \/ \E p \in PageInputs : BodyArrives(p)
    \/ BodyFails
    \/ \E i \in DOMAIN ndTasks, outcome \in NdOutcomes : NdRespond(i, outcome)
    \/ NativeSettled
    \/ \E i \in DOMAIN emTasks, outcome \in EmOutcomes : EmRespond(i, outcome)
    \/ EmbedsSettled
    \/ RtSettled
    \/ RtWake
    \/ ScrapeSettled

Spec == Init /\ [][Next]_vars

\* scrapeOnce from the arrival of the body of the page, in the first attempt of a
\* call of scrapeLinkedInPost whose page request was answered with 200.
InitExtract ==
    /\ WhIdle
    /\ UrlIdle
    /\ DlIdle
    /\ ExIdle
    /\ postUrl = [scheme |-> "https", host |-> LINKEDIN_HOST, path |-> <<"posts", "x">>]
    /\ scPc = "retrying"
    /\ scResult = Nothing
    /\ soPc = "body"
    /\ bodyOf = 1
    /\ rgPc = "idle"
    /\ rgAllowed = "none"
    /\ rgMax = 0
    /\ rgUrl = NoInputUrl
    /\ rgRedirects = 0
    /\ rgResult = NoResult
    /\ timers = {}
    /\ aborted = {}
    /\ hops = <<>>
    /\ netRequests = 1
    /\ rtPc = "task"
    /\ rtRetries = RETRY_COUNT
    /\ rtBaseDelay = DefaultBaseDelayMs
    /\ rtObserver = "returns"
    /\ rtAttempt = 0
    /\ rtResult = Nothing
    /\ taskPc = "running"
    /\ taskResult = Nothing
    /\ taskLog = <<>>
    /\ taskCalls = 1
    /\ sleeps = <<>>
    /\ observerCalls = <<>>

NextExtract ==
    \/ \E p \in ExtractPageInputs : BodyArrives(p)
    \/ \E i \in DOMAIN ndTasks, outcome \in NdOutcomes : NdRespond(i, outcome)
    \/ NativeSettled
    \/ \E i \in DOMAIN emTasks, outcome \in EmOutcomes : EmRespond(i, outcome)
    \/ EmbedsSettled

SpecExtract == InitExtract /\ [][NextExtract]_vars

(***************************************************************************)
(* downloadLinkedInMedia.  A task is the function given to limit for one   *)
(* entry: "fetch" while a request of it is outstanding, "body" while the   *)
(* body of its response is read.                                           *)
(***************************************************************************)
MAX_DOWNLOAD_COUNT == 40
DOWNLOAD_CONCURRENCY == 3

\* An entry of mediaEntries; padded: its url has white space around it.
Entry(url, padded, type, referer) ==
    [url |-> url, padded |-> padded, type |-> type, referer |-> referer]

\* normalizeWhitespace(entry?.url)
EntryUrl(entry) == entry.url

\* The loop that fills dedupedEntries: the first entry of every URL that is allowed,
\* in order.
DedupedEntries(mediaEntries, preferredReferer) ==
    LET first == {i \in DOMAIN mediaEntries :
                     /\ EntryUrl(mediaEntries[i]) # NoInputUrl
                     /\ isAllowedLinkedInMediaUrl(EntryUrl(mediaEntries[i]))
                     /\ \A j \in 1..(i - 1) :
                           EntryUrl(mediaEntries[j]) # EntryUrl(mediaEntries[i])}
        kept == [i \in DOMAIN mediaEntries |->
                    [url |-> EntryUrl(mediaEntries[i]),
                     requestedType |-> IF mediaEntries[i].type # "" THEN mediaEntries[i].type
                                       ELSE "image",
                     referer |-> normalizeReferer(IF mediaEntries[i].referer # NoInputUrl
                                                  THEN mediaEntries[i].referer
                                                  ELSE preferredReferer)]]
    IN  Pick(kept, first)

NoItem == [none |-> TRUE]

\* A Content-Type header: major/minor, with parameters after a ";" or without, in
\* upper case or in lower case.  No header is ContentType("", "", FALSE, FALSE).
ContentType(major, minor, params, upper) ==
    [major |-> major, minor |-> minor, params |-> params, upper |-> upper]

\* A response body: "data" is a body that is not empty, "empty" an empty body,
\* "truncated" a body whose read fails.
Body(kind, contentType) == [kind |-> kind, contentType |-> contentType]
NoBody == Body("none", ContentType("", "", FALSE, FALSE))

\* contentTypeHeader.split(";")[0].trim() of the lower-cased header
MimeTypeOf(contentTypeHeader) ==
    LET lowered == [contentTypeHeader EXCEPT !.upper = FALSE]
    IN  [major |-> lowered.major, minor |-> lowered.minor]

\* The text after the last "." of the last path segment when it is 2 to 5 letters or
\* digits, lower-cased: /\.([a-z0-9]{2,5})$/i
ExtensionOfSegment ==
    ("report.pdf" :> "pdf") @@ ("clip.mp4" :> "mp4") @@ ("clip.MOV" :> "mov")
        @@ ("photo.png" :> "png")

extensionFromUrl(urlValue) ==
    LET pathname == PathnameOf(urlValue)
        last == IF pathname = <<>> THEN "" ELSE pathname[Len(pathname)]
    IN  IF last \in DOMAIN ExtensionOfSegment THEN ExtensionOfSegment[last] ELSE ""

\* pathname.toLowerCase().endsWith("." + ext)
PathEndsWith(urlValue, exts) == extensionFromUrl(urlValue) \in exts

\* normalizedMime.startsWith("text/html")
MimeStartsWithTextHtml(mime) == mime.major = "text" /\ mime.minor \in {"html", "html5"}

\* The type the URL path alone suggests, "" when it suggests none.
PathMediaType(sourceUrl) ==
    LET pathname == PathnameOf(sourceUrl)
    IN  IF \/ SeqIncludes(pathname, <<"/", "dms", "/", "document", "/">>)
           \/ PathEndsWith(sourceUrl, {"pdf"})
        THEN "document"
        ELSE IF \/ SeqIncludes(pathname, <<"/", "dms", "/", "video", "/">>)
                \/ SeqIncludes(pathname, <<"/", "dms", "/", "videoplayback", "/">>)
                \/ SeqIncludes(pathname, <<"/", "playlist", "/", "vid", "/">>)
                \/ PathEndsWith(sourceUrl, {"mp4", "mov", "webm", "mpeg"})
        THEN "video"
        ELSE IF SeqIncludes(pathname, <<"/", "dms", "/", "image", "/">>)
        THEN "image"
        ELSE ""

MediaTypes == {"image", "video", "document"}

\* inferMediaType with the URL path consulted before the MIME type
inferMediaType_PathFirst(requestedType, mimeType, sourceUrl) ==
    IF PathMediaType(sourceUrl) # "" THEN PathMediaType(sourceUrl)
    ELSE IF MimeStartsWithTextHtml(mimeType) THEN ""
    ELSE IF mimeType.major \in {"image", "video"} THEN mimeType.major
    ELSE IF mimeType = [major |-> "application", minor |-> "pdf"] THEN "document"
    ELSE IF requestedType \in MediaTypes THEN requestedType
    ELSE ""

\* inferMediaType: "" is null.
inferMediaType(requestedType, mimeType, sourceUrl) ==
    IF MimeStartsWithTextHtml(mimeType) THEN ""
    ELSE IF mimeType.major = "image" THEN "image"
    ELSE IF mimeType.major = "video" THEN "video"
    ELSE IF mimeType = [major |-> "application", minor |-> "pdf"] THEN "document"
    ELSE IF PathMediaType(sourceUrl) # "" THEN PathMediaType(sourceUrl)
    ELSE IF /\ \/ mimeType = [major |-> "", minor |-> ""]
               \/ mimeType = [major |-> "application", minor |-> "octet-stream"]
            /\ requestedType \in MediaTypes
    THEN requestedType
    ELSE ""

MIME_TO_EXTENSION ==
    [image |-> [jpeg |-> "jpg", jpg |-> "jpg", png |-> "png", webp |-> "webp", gif |-> "gif",
                heic |-> "heic", heif |-> "heif"],
     video |-> [mp4 |-> "mp4", webm |-> "webm", quicktime |-> "mov", mpeg |-> "mpeg"],
     application |-> ("pdf" :> "pdf") @@ ("octet-stream" :> "bin")]

\* mediaFilename: linkedin-<mediaType>-<index + 1>.<ext>
mediaFilename(index, mediaType, mimeType, sourceUrl) ==
    LET known == /\ mimeType.major \in DOMAIN MIME_TO_EXTENSION
                 /\ mimeType.minor \in DOMAIN MIME_TO_EXTENSION[mimeType.major]
        ext == IF known THEN MIME_TO_EXTENSION[mimeType.major][mimeType.minor]
               ELSE IF extensionFromUrl(sourceUrl) # "" THEN extensionFromUrl(sourceUrl)
               ELSE "jpg"
    IN  [mediaType |-> mediaType, number |-> index + 1, ext |-> ext]

\* What the download of task i returns when it succeeds.
DownloadedMedia(entry, index, mediaType, mimeType) ==
    [url |-> entry.url, index |-> index, mediaType |-> mediaType, mimeType |-> mimeType,
     filename |-> mediaFilename(index, mediaType, mimeType, entry.url)]

\* Promise.all rejecting with the first failure: nothing is returned
Downloaded_AllOrNothing(tasks) ==
    IF \E i \in DOMAIN tasks : tasks[i].item = NoItem THEN <<>>
    ELSE [i \in DOMAIN tasks |-> tasks[i].item]

\* The items collected newest first
Downloaded_Reversed(tasks) ==
    LET kept == {i \in DOMAIN tasks : tasks[i].item # NoItem}
    IN  Pick([i \in DOMAIN tasks |-> tasks[Len(tasks) + 1 - i].item],
             {Len(tasks) + 1 - i : i \in kept})

\* result.filter(Boolean)
Downloaded(tasks) == Pick([i \in DOMAIN tasks |-> tasks[i].item],
                          {i \in DOMAIN tasks : tasks[i].item # NoItem})

\* Whether the media host answers task i now: a host that answers in order answers
\* the oldest outstanding task.
Answers(i) == dlServer.inOrder => \A j \in Running(dlTasks) : i <= j

\* The statuses after which the next referer is tried.
NextRefererStatuses_None == {}

NextRefererStatuses == {401, 403}

\* The task of entry i ends, after its catch block when something was thrown in it.
DlEnd(i, tried, body, item, caught) ==
    LET ended == [dlTasks EXCEPT ![i].pc = "done", ![i].tried = tried, ![i].body = body,
                                 ![i].item = item]
        admitted == Admit(ended, DOWNLOAD_CONCURRENCY, "fetch")
    IN  /\ dlTasks' = admitted
        /\ dlRequests' = dlRequests + Started(ended, admitted)
        /\ logged' = IF caught
                     THEN logged \cup {LogEntry("Skipping media after download failure",
                                                dlTasks[i].url)}
                     ELSE logged

\* downloadLinkedInMedia up to "await Promise.all(downloads)", or to its return when
\* no entry is left.
DlCall ==
    /\ dlPc = "call"
    /\ LET dedupedEntries == DedupedEntries(dlInput, dlReferer)
           entries == Slice(dedupedEntries, MAX_DOWNLOAD_COUNT)
           tasks == [i \in DOMAIN entries |->
                        [url |-> entries[i].url, requestedType |-> entries[i].requestedType,
                         referers |-> buildRefererCandidates(entries[i].referer),
                         pc |-> "queued", tried |-> <<>>, body |-> NoBody, item |-> NoItem]]
           admitted == Admit(tasks, DOWNLOAD_CONCURRENCY, "fetch")
       IN  IF dedupedEntries = <<>>
           THEN /\ dlPc' = "returned"
                /\ dlResult' = <<>>
                /\ UNCHANGED <<dlTasks, dlRequests>>
           ELSE /\ dlPc' = "running"
                /\ dlTasks' = admitted
                /\ dlRequests' = dlRequests + Started(tasks, admitted)
                /\ dlResult' = dlResult
    /\ UNCHANGED <<dlInput, dlReferer, dlServer, urlVars, rgVars, rtVars, scVars, exVars, whVars>>

\* The request of task i is answered with a status: a success status is final and
\* the body is read; 401 and 403 go on to the next referer, if any; any other status
\* is final and thrown.
DlRespond(i, status) ==
    /\ dlPc = "running"
    /\ i \in DOMAIN dlTasks
    /\ dlTasks[i].pc = "fetch"
    /\ status \in dlServer.statuses
    /\ Answers(i)
    /\ LET t == dlTasks[i]
           tried == Append(t.tried, status)
       IN  IF ResponseOk(status)
           THEN /\ dlTasks' = [dlTasks EXCEPT ![i].pc = "body", ![i].tried = tried]
                /\ UNCHANGED <<dlRequests, logged>>
           ELSE IF status \in NextRefererStatuses /\ Len(tried) < Len(t.referers)
           THEN /\ dlTasks' = [dlTasks EXCEPT ![i].tried = tried]
                /\ dlRequests' = dlRequests + 1
                /\ logged' = logged
           ELSE DlEnd(i, tried, NoBody, NoItem, TRUE)
    /\ UNCHANGED <<dlPc, dlInput, dlReferer, dlServer, dlResult, page, referers, ndTasks,
                   imageSet, documentSet, hasFullDocumentPages, nativeMedia, emTasks,
                   secRequests, result, urlVars, rgVars, rtVars, scVars, whVars>>

\* The request of task i fails (timeout, network error, refused redirect):
\* fetchWithRedirectGuard throws into the catch block of the task.
DlFail(i) ==
    /\ dlPc = "running"
    /\ i \in DOMAIN dlTasks
    /\ dlTasks[i].pc = "fetch"
    /\ dlServer.fails
    /\ Answers(i)
    /\ DlEnd(i, Append(dlTasks[i].tried, 0), NoBody, NoItem, TRUE)
    /\ UNCHANGED <<dlPc, dlInput, dlReferer, dlServer, dlResult, page, referers, ndTasks,
                   imageSet, documentSet, hasFullDocumentPages, nativeMedia, emTasks,
                   secRequests, result, urlVars, rgVars, rtVars, scVars, whVars>>

\* response.arrayBuffer() of task i settles: "data" is a body that is not empty,
\* "empty" an empty body, "truncated" a read that fails.  The item is returned when
\* the body is not empty and inferMediaType gives a type; everything else is thrown
\* into the catch block of the task.
DlBody(i, body) ==
    /\ dlPc = "running"
    /\ i \in DOMAIN dlTasks
    /\ dlTasks[i].pc = "body"
    /\ body \in dlServer.bodies
    /\ Answers(i)
    /\ LET t == dlTasks[i]
           mimeType == MimeTypeOf(body.contentType)
           mediaType == inferMediaType(t.requestedType, mimeType, t.url)
       IN  IF body.kind = "data" /\ mediaType # ""
           THEN DlEnd(i, t.tried, body, DownloadedMedia(t, i - 1, mediaType, mimeType), FALSE)
           ELSE DlEnd(i, t.tried, body, NoItem, TRUE)
    /\ UNCHANGED <<dlPc, dlInput, dlReferer, dlServer, dlResult, page, referers, ndTasks,
                   imageSet, documentSet, hasFullDocumentPages, nativeMedia, emTasks,
                   secRequests, result, urlVars, rgVars, rtVars, scVars, whVars>>

\* Promise.all(downloads) resolves: the items are returned in the order of the
\* entries.
DlSettled ==
    /\ dlPc = "running"
    /\ AllDone(dlTasks)
    /\ dlPc' = "returned"
    /\ dlResult' = Downloaded(dlTasks)
    /\ UNCHANGED <<dlInput, dlReferer, dlServer, dlTasks, dlRequests, urlVars, rgVars, rtVars,
                   scVars, exVars, whVars>>

\* The calls of downloadLinkedInMedia: the entries, options.referer and how the media
\* host answers.
DlStatuses == {200, 401, 403, 404}
ContentTypes ==
    {ContentType("", "", FALSE, FALSE), ContentType("text", "html", TRUE, FALSE),
     ContentType("text", "html5", FALSE, FALSE), ContentType("text", "plain", FALSE, FALSE),
     ContentType("image", "jpeg", FALSE, FALSE), ContentType("image", "png", TRUE, TRUE),
     ContentType("video", "mp4", FALSE, FALSE), ContentType("application", "pdf", FALSE, TRUE),
     ContentType("application", "octet-stream", FALSE, FALSE),
     ContentType("application", "json", FALSE, FALSE)}
JpegBody == Body("data", ContentType("image", "jpeg", FALSE, FALSE))
DlBodies ==
    {Body("data", contentType) : contentType \in ContentTypes}
        \cup {Body("empty", ContentType("image", "jpeg", FALSE, FALSE)),
              Body("truncated", ContentType("image", "jpeg", FALSE, FALSE))}
Server(statuses, bodies, fails, inOrder) ==
    [statuses |-> statuses, bodies |-> bodies, fails |-> fails, inOrder |-> inOrder]
Call(mediaEntries, referer, server) ==
    [mediaEntries |-> mediaEntries, referer |-> referer, server |-> server]
ImageEntries(from, to) ==
    [i \in 1..(to - from + 1) |-> Entry(MediaUrl("image", from + i - 1), FALSE, "image", NoInputUrl)]

\* 11 distinct media URLs, one of them given twice, and a URL on a foreign host.
ElevenEntries ==
    ImageEntries(1, 5) \o <<Entry(MediaUrl("image", 2), TRUE, "", NoInputUrl),
                            Entry(ForeignUrl("image", 1), FALSE, "image", NoInputUrl)>>
        \o ImageEntries(6, 11)
\* More than MAX_DOWNLOAD_COUNT distinct media URLs, on a host that answers in order.
ManyEntries == ImageEntries(1, MAX_DOWNLOAD_COUNT + 2)
\* Four distinct media URLs on a host that answers some requests with 404 and lets
\* others fail.
FourEntries == ImageEntries(1, 2) \o <<Entry(MediaUrl("image", 1), FALSE, "image", NoInputUrl)>>
                   \o ImageEntries(3, 4)
\* Two media URLs, the second with a referer of its own.
TwoEntries ==
    <<Entry(MediaUrl("video", 1), FALSE, "video", NoInputUrl),
      Entry(MediaUrl("document", 2), FALSE, "", Origin(UkHost))>>

\* The URLs whose type is inferred: every path hint, a path that ends in an
\* extension, and paths that suggest nothing.
PathUrl(path) == [scheme |-> "https", host |-> MediaHost, path |-> path]
InferUrls ==
    {MediaUrl("image", 1), MediaUrl("video", 1), MediaUrl("videoplayback", 1),
     MediaUrl("document", 1), MediaUrl("other", 1), PathUrl(<<"playlist", "vid", "1">>),
     PathUrl(<<"files", "report.pdf">>), PathUrl(<<"files", "clip.mp4">>),
     PathUrl(<<"files", "clip.MOV">>), PathUrl(<<"files", "photo.png">>),
     PathUrl(<<"dms", "image", "report.pdf">>)}
InferTypes == {"", "image", "video", "document", "audio"}
InferInputs ==
    {Call(<<Entry(url, FALSE, type, NoInputUrl)>>, NoInputUrl,
          Server({200}, {b \in DlBodies : b.kind = "data"}, FALSE, FALSE)) :
        url \in InferUrls, type \in InferTypes}

DownloadInputs ==
    InferInputs \cup
    {Call(ElevenEntries, Origin(LINKEDIN_HOST), Server({200}, {JpegBody}, FALSE, FALSE)),
     Call(ManyEntries, NoInputUrl, Server({200}, {JpegBody}, FALSE, TRUE)),
     Call(FourEntries, Origin(AeHost), Server({200, 404}, {JpegBody}, TRUE, FALSE)),
     Call(TwoEntries, Origin(AeHost), Server(DlStatuses, DlBodies, TRUE, FALSE)),
     Call(<<Entry(ForeignUrl("image", 1), FALSE, "image", NoInputUrl)>>, NoInputUrl,
          Server(DlStatuses, DlBodies, TRUE, FALSE))}

InitDownload ==
    /\ WhIdle
    /\ UrlIdle
    /\ RgIdle
    /\ RtIdle
    /\ ScIdle
    /\ ExIdle
    /\ \E call \in DownloadInputs :
          /\ dlInput = call.mediaEntries
          /\ dlReferer = call.referer
          /\ dlServer = call.server
    /\ dlPc = "call"
    /\ dlTasks = <<>>
    /\ dlRequests = 0
    /\ dlResult = <<>>

NextDownload ==
    \/ DlCall
    \/ \E i \in DOMAIN dlTasks, status \in DlStatuses : DlRespond(i, status)
    \/ \E i \in DOMAIN dlTasks : DlFail(i)
    \/ \E i \in DOMAIN dlTasks, body \in DlBodies : DlBody(i, body)
    \/ DlSettled

SpecDownload == InitDownload /\ [][NextDownload]_vars

(***************************************************************************)
(* The webhook handlers.  A request body is the form in which the platform *)
(* hands it over ("object": already parsed, "string", "buffer", "stream"), *)
(* its raw text ("json", "garbage" or "empty") and the value the text      *)
(* stands for.  A handler runs from one await to the next in one step.     *)
(***************************************************************************)
TELEGRAM_MEDIA_GROUP_LIMIT == 10

\* The text of a message: "none" is no text field, "number" a field that is not a
\* string, "blank" white space only, "words" a text without URL, "link" a text
\* that holds the URL url.
Text(kind, url) == [kind |-> kind, url |-> url]
NoText == Text("none", NoInputUrl)

\* A message of an update; chat "" is a message without chat id.
Message(chat, text, photo) == [present |-> TRUE, chat |-> chat, text |-> text, photo |-> photo]
NoMessage == [present |-> FALSE, chat |-> "", text |-> NoText, photo |-> <<>>]

Update(message, edited_message, channel_post) ==
    [isObject |-> TRUE, message |-> message, edited_message |-> edited_message,
     channel_post |-> channel_post]
EmptyUpdate == Update(NoMessage, NoMessage, NoMessage)
\* A JSON value that is not an object: null, a number, a string.
NotAnObject == [EmptyUpdate EXCEPT !.isObject = FALSE]

RequestBody(form, raw, value) == [form |-> form, raw |-> raw, value |-> value]

\* JSON.parse of the raw text
JSONparse(body) ==
    IF body.raw = "json" THEN [threw |-> FALSE, value |-> body.value]
    ELSE [threw |-> TRUE, value |-> NotAnObject]

\* parseBody: an object is returned as it is, a string and a buffer are parsed, a
\* stream is read and parsed unless it is empty.
parseBody(body) ==
    IF body.form = "object" THEN [threw |-> FALSE, value |-> body.value]
    ELSE IF body.form \in {"string", "buffer"} THEN JSONparse(body)
    ELSE IF body.raw = "empty" THEN [threw |-> FALSE, value |-> EmptyUpdate]
    ELSE JSONparse(body)

MessagesOf(update) == <<update.message, update.edited_message, update.channel_post>>

\* TelegramUpdateSchema.safeParse(body).success of the LinkedIn handler
TelegramUpdateSchema(value) ==
    /\ value.isObject
    /\ \A i \in 1..3 :
          LET message == MessagesOf(value)[i]
          IN  message.present => message.chat # "" /\ message.text.kind # "number"

\* update.message || update.edited_message || update.channel_post || null
getIncomingMessage(update) ==
    IF \E i \in 1..3 : MessagesOf(update)[i].present
    THEN MessagesOf(update)[CHOOSE i \in 1..3 :
                               /\ MessagesOf(update)[i].present
                               /\ \A j \in 1..(i - 1) : ~MessagesOf(update)[j].present]
    ELSE NoMessage

\* extractFirstUrl: the first http or https URL of the text, NoInputUrl for null
extractFirstUrl(text) ==
    IF text.kind = "link" /\ text.url.scheme \in {"http", "https"} THEN text.url
    ELSE NoInputUrl

\* The text of a Telegram message or caption: the constant or format id, and the
\* number the format is filled with.
Txt(id, n) == [id |-> id, n |-> n]
NoCaption == Txt("", 0)

\* A call of the Telegram API: "pending" until its promise settles.
TgCall(method, text, files) ==
    [method |-> method, text |-> text, files |-> files, status |-> "pending"]

\* res.status(status).json({ok}): the handler returns after it.
Respond(h, status, ok) ==
    [h EXCEPT !.responses = Append(@, [status |-> status, ok |-> ok]), !.pc = "done"]

\* logError(message, ...)
Log(h, message) == [h EXCEPT !.log = Append(@, message)]

\* The handler awaits a call of the Telegram API; guarded: inside a try whose catch
\* only logs failLog; after it the handler goes on at next.
Send(h, call, guarded, failLog, next) ==
    [h EXCEPT !.calls = Append(@, call), !.pc = "send",
              !.then = [guarded |-> guarded, failLog |-> failLog, next |-> next]]

safeReply(h, text, next) ==
    Send(h, TgCall("sendMessage", text, <<>>), TRUE, "Failed to send Telegram message", next)

\* An error: its class ("LinkedInExtractionError", "ProcessingError", "Error"), its
\* code, and whether its message holds the word timeout.
Error(class, code, timeout) == [class |-> class, code |-> code, timeout |-> timeout]

\* Every error answered with the generic message
sendErrorByType_AlwaysGeneric(h, error) ==
    safeReply(h, Txt("GENERIC_ERROR_MESSAGE", 0), "respond")

\* sendErrorByType of the LinkedIn handler
sendErrorByType(h, error) ==
    IF error.class = "LinkedInExtractionError" /\ error.code = "INVALID_URL"
    THEN safeReply(h, Txt("INVALID_URL_MESSAGE", 0), "respond")
    ELSE IF error.class = "LinkedInExtractionError" /\ error.code = "TEXT_NOT_FOUND"
    THEN safeReply(h, Txt("NO_CONTENT_MESSAGE", 0), "respond")
    ELSE IF error.class = "LinkedInExtractionError" /\ error.code = "PRIVATE_OR_PROTECTED"
    THEN safeReply(h, Txt("PRIVATE_POST_MESSAGE", 0), "respond")
    ELSE safeReply(h, Txt("GENERIC_ERROR_MESSAGE", 0), "respond")

\* A catch block that logs and throws the error again: no response is sent
Catch_Rethrow(h, error) ==
    [Log(h, "Failed to process Telegram update") EXCEPT !.caught = error, !.pc = "done"]

\* The catch block of the LinkedIn handler
Catch(h, error) ==
    LET logged1 == [Log(h, "Failed to process Telegram update") EXCEPT !.caught = error]
    IN  IF h.chatId # "null" THEN sendErrorByType(logged1, error)
        ELSE Respond(logged1, 200, TRUE)

\* A scraped post: how many image, video and document URLs it has.
Post(images, videos, documents) ==
    [images |-> images, videos |-> videos, documents |-> documents]

\* mediaTargets: the image URLs, then the video URLs, then the document URLs.
MediaTargets(post) ==
    [i \in 1..post.images |-> [url |-> MediaUrl("image", i), type |-> "image"]]
        \o [i \in 1..post.videos |-> [url |-> MediaUrl("video", i), type |-> "video"]]
        \o [i \in 1..post.documents |-> [url |-> MediaUrl("document", i), type |-> "document"]]

StreamableMedia(downloadedMedia) ==
    SelectSeq(downloadedMedia, LAMBDA item : item.mediaType \in {"image", "video"})
DocumentMedia(downloadedMedia) ==
    SelectSeq(downloadedMedia, LAMBDA item : item.mediaType = "document")

\* The loop over documentMedia, from its file number h.index + 1 on, and the
\* response after it.
SendDocuments(h) ==
    LET documentMedia == DocumentMedia(h.items)
    IN  IF h.index < Len(documentMedia)
        THEN Send([h EXCEPT !.index = @ + 1],
                  TgCall("sendDocument", Txt("DOCUMENT_CAPTION", 0),
                         <<documentMedia[h.index + 1]>>),
                  FALSE, "", "documents")
        ELSE Respond(h, 200, TRUE)

\* sendMediaGroup: at most TELEGRAM_MEDIA_GROUP_LIMIT files, and no call of the API
\* without files.
sendMediaGroup(h, mediaFiles) ==
    LET files == Slice(mediaFiles, TELEGRAM_MEDIA_GROUP_LIMIT)
    IN  IF files = <<>> THEN SendDocuments(h)
        ELSE Send(h, TgCall("sendMediaGroup", NoCaption, files), FALSE, "", "documents")

\* The handler from "const streamableMedia" on.
Deliver(h) ==
    LET streamableMedia == StreamableMedia(h.items)
        singleFile == streamableMedia[1]
    IN  IF Len(streamableMedia) = 1
        THEN Send(h, TgCall(IF singleFile.mediaType = "video" THEN "sendVideo" ELSE "sendPhoto",
                            NoCaption, <<singleFile>>),
                  FALSE, "", "documents")
        ELSE IF Len(streamableMedia) > 1 /\ Len(streamableMedia) <= 10
        THEN sendMediaGroup(h, streamableMedia)
        ELSE IF Len(streamableMedia) > 10
        THEN [h EXCEPT !.pc = "zip", !.zipped = Append(@, streamableMedia)]
        ELSE SendDocuments(h)

\* The LinkedIn handler after an awaited Telegram call returned.
LiContinue(h, next) ==
    IF next = "respond" THEN Respond(h, 200, TRUE)
    ELSE IF next = "targets"
    THEN IF MediaTargets(h.post) = <<>> THEN Respond(h, 200, TRUE)
         ELSE [h EXCEPT !.pc = "download"]
    ELSE SendDocuments(h)

\* The LinkedIn handler from its call to its first await that is not parseBody.
LiHandler(req, h) ==
    IF req.method # "POST" THEN Respond(h, 405, FALSE)
    ELSE IF ~req.token THEN Respond(Log(h, "Missing TELEGRAM_BOT_TOKEN"), 500, FALSE)
    ELSE LET body == parseBody(req.body)
             message == getIncomingMessage(body.value)
             text == message.text.kind \in {"words", "link"}
             chatId == IF message.present THEN message.chat ELSE "null"
             h1 == [h EXCEPT !.chatId = chatId]
             maybeUrl == extractFirstUrl(message.text)
         IN  IF body.threw THEN Catch(h, Error("SyntaxError", "", FALSE))
             ELSE IF ~TelegramUpdateSchema(body.value)
             THEN Respond(Log(h, "Invalid Telegram webhook payload"), 400, FALSE)
             ELSE IF ~text \/ chatId = "null" THEN Respond(h1, 200, TRUE)
             ELSE IF maybeUrl = NoInputUrl \/ ~isValidLinkedInPostUrl(maybeUrl)
             THEN safeReply(h1, Txt("INVALID_URL_MESSAGE", 0), "respond")
             ELSE [h1 EXCEPT !.pc = "scrape", !.scrapes = @ + 1]

LiCall ==
    /\ whReq.handler = "linkedin"
    /\ wh.pc = "call"
    /\ wh' = LiHandler(whReq, wh)
    /\ UNCHANGED <<whReq, urlVars, rgVars, rtVars, scVars, exVars, dlVars>>

\* What scrapeLinkedInPost settles with for a valid post URL.
Posts ==
    {Post(0, 0, 0), Post(1, 0, 0), Post(0, 1, 0), Post(2, 0, 1), Post(0, 0, 2), Post(9, 1, 2),
     Post(10, 1, 1)}
ScrapeErrors ==
    {Error("LinkedInExtractionError", "TEXT_NOT_FOUND", FALSE),
     Error("LinkedInExtractionError", "PRIVATE_OR_PROTECTED", FALSE),
     Error("LinkedInExtractionError", "SCRAPE_FAILED", FALSE),
     Error("Error", "Blocked hostname", FALSE), Error("Error", "Too many redirects", FALSE),
     Error("Error", "Request timeout", TRUE)}
NoError == Error("", "", FALSE)
ScrapeOutcomes ==
    {[ok |-> TRUE, post |-> post, error |-> NoError] : post \in Posts}
        \cup {[ok |-> FALSE, post |-> NoPost, error |-> error] : error \in ScrapeErrors}

\* scrapeLinkedInPost settles: the success message is sent, or the error is caught.
LiScrapeSettles(outcome) ==
    /\ whReq.handler = "linkedin"
    /\ wh.pc = "scrape"
    /\ wh' = IF outcome.ok
             THEN Send([wh EXCEPT !.post = outcome.post],
                       TgCall("sendMessage", Txt("SUCCESS_HEADER", 0), <<>>), FALSE, "", "targets")
             ELSE Catch(wh, outcome.error)
    /\ UNCHANGED <<whReq, urlVars, rgVars, rtVars, scVars, exVars, dlVars>>

\* The awaited call of the Telegram API has settled.
Settled(h, ok) ==
    [h EXCEPT !.calls[Len(h.calls)].status = IF ok THEN "ok" ELSE "failed"]

\* The awaited call of the Telegram API settles: the handler goes on, or the
\* failure is logged by the try around the call, or it is caught by the handler.
LiSendSettles(ok) ==
    /\ whReq.handler = "linkedin"
    /\ wh.pc = "send"
    /\ wh' = IF ok THEN LiContinue(Settled(wh, ok), wh.then.next)
             ELSE IF wh.then.guarded
             THEN LiContinue(Log(Settled(wh, ok), wh.then.failLog), wh.then.next)
             ELSE Catch(Settled(wh, ok), Error("Error", "Telegram API failed", FALSE))
    /\ UNCHANGED <<whReq, urlVars, rgVars, rtVars, scVars, exVars, dlVars>>

\* What downloadLinkedInMedia returns for the targets: every target with the type
\* it was declared with, none, all but the first, the first only, or every target
\* with a PDF behind it.
DownloadedAs(targets, sniffed) ==
    [i \in DOMAIN targets |->
        [url |-> targets[i].url,
         mediaType |-> IF sniffed = "" THEN targets[i].type ELSE sniffed]]
DownloadOutcomes(targets) ==
    {DownloadedAs(targets, ""), <<>>, Pick(DownloadedAs(targets, ""), DOMAIN targets \ {1}),
     Pick(DownloadedAs(targets, ""), DOMAIN targets \cap {1}), DownloadedAs(targets, "document")}

\* downloadLinkedInMedia returns.
LiDownloadSettles(downloadedMedia) ==
    /\ whReq.handler = "linkedin"
    /\ wh.pc = "download"
    /\ downloadedMedia \in DownloadOutcomes(MediaTargets(wh.post))
    /\ wh' = IF downloadedMedia = <<>> THEN Respond(wh, 200, TRUE)
             ELSE Deliver([wh EXCEPT !.items = downloadedMedia])
    /\ UNCHANGED <<whReq, urlVars, rgVars, rtVars, scVars, exVars, dlVars>>

\* createZipBuffer settles: the archive is sent as a document, or its error is caught.
LiZipSettles(ok) ==
    /\ whReq.handler = "linkedin"
    /\ wh.pc = "zip"
    /\ wh' = IF ok
             THEN Send(wh, TgCall("sendDocument", Txt("ZIP_CAPTION", 0), StreamableMedia(wh.items)),
                       FALSE, "", "documents")
             ELSE Catch(wh, Error("Error", "archive failed", FALSE))
    /\ UNCHANGED <<whReq, urlVars, rgVars, rtVars, scVars, exVars, dlVars>>

\* The requests of the LinkedIn webhook.
ValidPostUrl == [scheme |-> "https", host |-> LINKEDIN_HOST, path |-> <<"posts", "x">>]
Request(handler, method, token, body) ==
    [handler |-> handler, method |-> method, token |-> token, body |-> body]
LinkUpdate(url) == Update(Message("7", Text("link", url), <<>>), NoMessage, NoMessage)
LiBodies ==
    {RequestBody("object", "", LinkUpdate(ValidPostUrl)),
     RequestBody("string", "json", LinkUpdate(ValidPostUrl)),
     RequestBody("stream", "json",
                 Update(NoMessage, Message("@c", Text("link", ValidPostUrl), <<>>), NoMessage)),
     RequestBody("buffer", "json",
                 Update(NoMessage, NoMessage, Message("7", Text("link", ValidPostUrl), <<>>))),
     RequestBody("string", "garbage", NotAnObject),
     RequestBody("string", "empty", NotAnObject),
     RequestBody("buffer", "garbage", NotAnObject),
     RequestBody("stream", "garbage", NotAnObject),
     RequestBody("stream", "empty", NotAnObject),
     RequestBody("string", "json", NotAnObject),
     RequestBody("object", "", Update(Message("", Text("link", ValidPostUrl), <<>>), NoMessage,
                                      NoMessage)),
     RequestBody("object", "", Update(Message("7", Text("link", ValidPostUrl), <<>>),
                                      Message("7", Text("number", NoInputUrl), <<>>), NoMessage)),
     RequestBody("object", "", EmptyUpdate),
     RequestBody("object", "", Update(Message("7", NoText, <<>>), NoMessage, NoMessage)),
     RequestBody("object", "", Update(Message("7", Text("blank", NoInputUrl), <<>>), NoMessage,
                                      NoMessage)),
     RequestBody("object", "", Update(Message("7", Text("words", NoInputUrl), <<>>), NoMessage,
                                      NoMessage)),
     RequestBody("object", "", LinkUpdate([ValidPostUrl EXCEPT !.scheme = "http"])),
     RequestBody("object", "", LinkUpdate([ValidPostUrl EXCEPT !.scheme = "ftp"])),
     RequestBody("object", "", LinkUpdate([ValidPostUrl EXCEPT !.host = LinkedInCom])),
     RequestBody("object", "", LinkUpdate([ValidPostUrl EXCEPT !.path = <<"in", "x">>]))}
LiRequests ==
    {Request("linkedin", "POST", TRUE, body) : body \in LiBodies}
        \cup {Request("linkedin", "GET", TRUE, RequestBody("object", "", LinkUpdate(ValidPostUrl))),
              Request("linkedin", "POST", FALSE, RequestBody("object", "", LinkUpdate(ValidPostUrl))),
              Request("linkedin", "PUT", TRUE, RequestBody("string", "garbage", NotAnObject))}

(***************************************************************************)
(* The anime-search handler.                                               *)
(***************************************************************************)
MAX_RESULTS_Unbounded == 3 + 2
MAX_RESULTS == 3
MAX_IMAGE_SIZE_BYTES == 8 * 1024 * 1024

\* A photo size of a message; file_size -1 and width or height 0: no such field.
Photo(file_id, file_size, width, height) ==
    [file_id |-> file_id, file_size |-> file_size, width |-> width, height |-> height]
NoPhoto == Photo("", -1, 0, 0)

\* TelegramUpdateSchema.safeParse(body).success of the anime-search handler
AnimeUpdateSchema(value) ==
    /\ value.isObject
    /\ \A i \in 1..3 :
          LET message == MessagesOf(value)[i]
          IN  message.present
                 => /\ message.chat # ""
                    /\ message.text.kind # "number"
                    /\ \A k \in DOMAIN message.photo : message.photo[k].file_id # ""

getPhotoSortWeight(photo) ==
    IF photo.file_size # -1 THEN photo.file_size ELSE photo.width * photo.height

\* getLargestPhoto: the last of the photos of the largest weight, NoPhoto for null
getLargestPhoto(photos) ==
    IF photos = <<>> THEN NoPhoto
    ELSE photos[CHOOSE i \in DOMAIN photos :
                   /\ \A j \in DOMAIN photos :
                         getPhotoSortWeight(photos[i]) >= getPhotoSortWeight(photos[j])
                   /\ \A j \in DOMAIN photos :
                         j > i => getPhotoSortWeight(photos[j]) < getPhotoSortWeight(photos[i])]

\* normalizePreviewUrl(value) # null; a value is given by what its text starts with
\* ("https", "http", "ftp"), "blank" for white space and "none" for no string.
normalizePreviewUrl(value) == value \in {"https", "http"}

\* A result of the search: its place in the answer of the service and its previews.
TraceResult(rank, image, video) == [rank |-> rank, image |-> image, video |-> video]

\* sendErrorByType of the anime-search handler
AnSendErrorByType(h, error) ==
    IF error.class = "ProcessingError" /\ error.code = "IMAGE_TOO_LARGE"
    THEN safeReply(h, Txt("IMAGE_TOO_LARGE_MESSAGE", 0), "respond")
    ELSE IF error.class = "ProcessingError" /\ error.code = "TELEGRAM_DOWNLOAD_FAILED"
    THEN safeReply(h, Txt("TELEGRAM_DOWNLOAD_ERROR_MESSAGE", 0), "respond")
    ELSE IF error.class = "ProcessingError" /\ error.code = "TRACE_API_FAILURE"
    THEN safeReply(h, Txt("TRACE_API_ERROR_MESSAGE", 0), "respond")
    ELSE IF error.class = "ProcessingError" /\ error.code = "TRACE_INVALID_RESPONSE"
    THEN safeReply(h, Txt("TRACE_RESPONSE_ERROR_MESSAGE", 0), "respond")
    ELSE IF error.class = "ProcessingError" /\ error.code = "TIMEOUT"
    THEN safeReply(h, Txt("TIMEOUT_ERROR_MESSAGE", 0), "respond")
    ELSE IF error.timeout THEN safeReply(h, Txt("TIMEOUT_ERROR_MESSAGE", 0), "respond")
    ELSE safeReply(h, Txt("GENERIC_ERROR_MESSAGE", 0), "respond")

\* The catch block of the anime-search handler
AnCatch(h, error) ==
    LET logged1 == [Log(h, "Failed to process Telegram update") EXCEPT !.caught = error]
    IN  IF h.chatId # "null" THEN AnSendErrorByType(logged1, error)
        ELSE Respond(logged1, 200, TRUE)

\* The anime-search handler from its call to its first await that is not parseBody.
AnHandler(req, h) ==
    IF req.method # "POST" THEN Respond(h, 405, FALSE)
    ELSE IF ~req.token THEN Respond(Log(h, "Missing BOT_TOKEN"), 500, FALSE)
    ELSE LET body == parseBody(req.body)
             message == getIncomingMessage(body.value)
             chatId == IF message.present THEN message.chat ELSE "null"
             h1 == [h EXCEPT !.chatId = chatId]
             photo == getLargestPhoto(message.photo)
         IN  IF body.threw THEN AnCatch(h, Error("SyntaxError", "", FALSE))
             ELSE IF ~AnimeUpdateSchema(body.value)
             THEN Respond(Log(h, "Invalid Telegram webhook payload"), 400, FALSE)
             ELSE IF ~message.present \/ chatId = "null" THEN Respond(h1, 200, TRUE)
             ELSE IF photo = NoPhoto THEN safeReply(h1, Txt("NO_IMAGE_MESSAGE", 0), "respond")
             ELSE IF photo.file_size > 0 /\ photo.file_size > MAX_IMAGE_SIZE_BYTES
             THEN AnCatch(h1, Error("ProcessingError", "IMAGE_TOO_LARGE", FALSE))
             ELSE [h1 EXCEPT !.pc = "photo"]

AnCall ==
    /\ whReq.handler = "anime"
    /\ wh.pc = "call"
    /\ wh' = AnHandler(whReq, wh)
    /\ UNCHANGED <<whReq, urlVars, rgVars, rtVars, scVars, exVars, dlVars>>

\* What downloadTelegramPhoto ends with after its first await: "" is the buffer.
PhotoOutcomes ==
    {NoError, Error("ProcessingError", "TIMEOUT", TRUE),
     Error("ProcessingError", "TELEGRAM_DOWNLOAD_FAILED", FALSE),
     Error("ProcessingError", "IMAGE_TOO_LARGE", FALSE)}

AnPhotoSettles(outcome) ==
    /\ whReq.handler = "anime"
    /\ wh.pc = "photo"
    /\ wh' = IF outcome = NoError THEN [wh EXCEPT !.pc = "search"] ELSE AnCatch(wh, outcome)
    /\ UNCHANGED <<whReq, urlVars, rgVars, rtVars, scVars, exVars, dlVars>>

\* The anime-search handler after an awaited Telegram call returned: sendResultPreview
\* of result number h.index at "photo", "video" and "fallback", the loop over the
\* results at "next".
RECURSIVE AnContinue(_, _)
AnContinue(h, next) ==
    LET details == Txt("DETAILS", h.index)
    IN  IF next = "respond" THEN Respond(h, 200, TRUE)
        ELSE IF next = "next"
        THEN IF h.index < Len(h.items)
             THEN AnContinue([h EXCEPT !.index = @ + 1, !.sent = FALSE], "photo")
             ELSE Respond(h, 200, TRUE)
        ELSE IF next = "photo"
        THEN IF normalizePreviewUrl(h.items[h.index].image)
             THEN Send(h, TgCall("sendPhoto", details, <<h.items[h.index]>>), TRUE,
                       "Failed to send preview image", "video")
             ELSE AnContinue(h, "video")
        ELSE IF next = "video"
        THEN IF normalizePreviewUrl(h.items[h.index].video)
             THEN Send(h, TgCall("sendVideo", IF h.sent THEN NoCaption ELSE details,
                                 <<h.items[h.index]>>),
                       TRUE, "Failed to send preview video", "fallback")
             ELSE AnContinue(h, "fallback")
        ELSE IF ~h.sent
        THEN safeReply(h, Txt("DETAILS_PREVIEW_SEND_FAILED_MESSAGE", h.index), "next")
        ELSE AnContinue(h, "next")

\* What searchTraceMoe ends with.
R1 == TraceResult(1, "https", "https")
SearchResults ==
    {<<>>, <<R1>>,
     <<TraceResult(1, "https", "none"), TraceResult(2, "ftp", "http")>>,
     <<TraceResult(1, "none", "none"), TraceResult(2, "https", "https"),
       TraceResult(3, "blank", "https"),
       TraceResult(4, "https", "https"), TraceResult(5, "https", "https")>>}
SearchErrors ==
    {Error("ProcessingError", "TIMEOUT", TRUE), Error("ProcessingError", "TRACE_API_FAILURE", FALSE),
     Error("ProcessingError", "TRACE_INVALID_RESPONSE", FALSE)}
SearchOutcomes ==
    {[ok |-> TRUE, results |-> results, error |-> NoError] : results \in SearchResults}
        \cup {[ok |-> FALSE, results |-> <<>>, error |-> error] : error \in SearchErrors}

\* searchTraceMoe settles: no result is answered with a message, the first
\* MAX_RESULTS results are announced and previewed one after the other.
AnSearchSettles(outcome) ==
    /\ whReq.handler = "anime"
    /\ wh.pc = "search"
    /\ wh' = IF ~outcome.ok THEN AnCatch(wh, outcome.error)
             ELSE IF Len(outcome.results) = 0
             THEN safeReply(wh, Txt("NO_RESULTS_MESSAGE", 0), "respond")
             ELSE LET topResults == Slice(outcome.results, MAX_RESULTS)
                  IN  safeReply([wh EXCEPT !.items = topResults],
                                Txt("SUCCESS_HEADER", Len(topResults)), "next")
    /\ UNCHANGED <<whReq, urlVars, rgVars, rtVars, scVars, exVars, dlVars>>

\* The awaited call of the Telegram API settles: a photo or video that was sent sets
\* sent, a failure is logged by the try around the call.
AnSendSettles(ok) ==
    /\ whReq.handler = "anime"
    /\ wh.pc = "send"
    /\ LET call == wh.calls[Len(wh.calls)]
           h1 == Settled(wh, ok)
       IN  wh' = IF ok
                 THEN AnContinue([h1 EXCEPT !.sent = @ \/ call.method \in {"sendPhoto", "sendVideo"}],
                                 wh.then.next)
                 ELSE AnContinue(Log(h1, wh.then.failLog), wh.then.next)
    /\ UNCHANGED <<whReq, urlVars, rgVars, rtVars, scVars, exVars, dlVars>>

\* The requests of the anime-search webhook.
PhotoUpdate(photo) == Update(Message("7", NoText, photo), NoMessage, NoMessage)
SmallPhotos == <<Photo("a", 1000, 90, 90), Photo("b", 2000, 320, 320), Photo("c", -1, 10, 10)>>
AnBodies ==
    {RequestBody("object", "", PhotoUpdate(SmallPhotos)),
     RequestBody("string", "json", PhotoUpdate(SmallPhotos)),
     RequestBody("object", "", PhotoUpdate(<<Photo("a", 1000, 90, 90),
                                             Photo("b", MAX_IMAGE_SIZE_BYTES + 1, 0, 0)>>)),
     RequestBody("object", "", PhotoUpdate(<<Photo("", 1000, 90, 90)>>)),
     RequestBody("object", "", PhotoUpdate(<<>>)),
     RequestBody("object", "", EmptyUpdate),
     RequestBody("string", "garbage", NotAnObject),
     RequestBody("stream", "empty", NotAnObject),
     RequestBody("buffer", "json", NotAnObject)}
AnRequests ==
    {Request("anime", "POST", TRUE, body) : body \in AnBodies}
        \cup {Request("anime", "GET", TRUE, RequestBody("object", "", PhotoUpdate(SmallPhotos))),
              Request("anime", "POST", FALSE, RequestBody("object", "", PhotoUpdate(SmallPhotos)))}

InitWebhook ==
    /\ UrlIdle
    /\ RgIdle
    /\ RtIdle
    /\ ScIdle
    /\ ExIdle
    /\ DlIdle
    /\ whReq \in LiRequests \cup AnRequests
    /\ wh = [WhStart EXCEPT !.pc = "call"]

NextWebhook ==
    \/ LiCall
    \/ \E outcome \in ScrapeOutcomes : LiScrapeSettles(outcome)
    \/ \E ok \in BOOLEAN : LiSendSettles(ok)
    \/ \E downloadedMedia \in UNION {DownloadOutcomes(MediaTargets(post)) : post \in Posts} :
          LiDownloadSettles(downloadedMedia)
    \/ \E ok \in BOOLEAN : LiZipSettles(ok)
    \/ AnCall
    \/ \E outcome \in PhotoOutcomes : AnPhotoSettles(outcome)
    \/ \E outcome \in SearchOutcomes : AnSearchSettles(outcome)
    \/ \E ok \in BOOLEAN : AnSendSettles(ok)

SpecWebhook == InitWebhook /\ [][NextWebhook]_vars

InitUrl ==
    /\ WhIdle
    /\ \/ urlIn \in UrlInputs \ {NoInputUrl} /\ hostIn = <<>>
       \/ urlIn = NoInputUrl /\ hostIn \in HostInputs \ {<<>>}
    /\ urlVerdict = "none"
    /\ hostVerdict = "none"
    /\ RgIdle
    /\ RtIdle
    /\ ScIdle
    /\ ExIdle
    /\ DlIdle

NextUrl == CheckPostUrl \/ CheckMediaHost

SpecUrl == InitUrl /\ [][NextUrl]_vars

(***************************************************************************)
(* Properties of fetchWithRedirectGuard and fetchWithTimeout.              *)
(***************************************************************************)
RgDone == RgSettled

\* The URL is one the guard lets a request go to.
Permitted(url) == url.protocol = "https:" /\ isHostnameAllowed(url.hostname, rgAllowed)

\* C1: fetchWithRedirectGuard never issues a request to a URL whose scheme is not
\* https or whose hostname fails allowedHosts, be it the initial URL or a redirect
\* target, the last permitted hop included; a redirect to such a URL is the last
\* thing the call sees, and the call does not return a response.
C1_NoRequestOutsidePolicy ==
    /\ \A i \in DOMAIN hops : Permitted(hops[i].url)
    /\ \A i \in DOMAIN hops :
          (hops[i].outcome = "redirect" /\ hops[i].target.ok /\ ~Permitted(hops[i].target))
              => /\ i = Len(hops)
                 /\ rgPc \in {"loop", "threw"}
    /\ (rgPc \in {"await", "returned"}) => hops # <<>>
    /\ (rgPc = "threw" /\ hops = <<>>) => netRequests = 0

\* The call has failed on its last permitted hop (redirects = maxRedirects) after a
\* redirect to a host that is not allowed, with no request sent there.
C1_Witness ==
    /\ rgPc = "threw"
    /\ rgMax = 2
    /\ Len(hops) = 3
    /\ hops[3].outcome = "redirect"
    /\ hops[3].target.ok
    /\ ~isHostnameAllowed(hops[3].target.hostname, rgAllowed)
    /\ netRequests = 3

\* The target of a redirect is on an allowed host and, if pinned, an https URL.
TargetAllowed(url, pinned) ==
    /\ url.ok
    /\ isHostnameAllowed(url.hostname, rgAllowed)
    /\ pinned => url.protocol = "https:"

\* Every request of the call was answered with a redirect to such a target.
AllRedirects(pinned) ==
    /\ hops # <<>>
    /\ \A i \in DOMAIN hops :
          hops[i].outcome = "redirect" /\ TargetAllowed(hops[i].target, pinned)

\* Requests 1 .. n-1 were answered with such redirects, request n with a response
\* that is not a redirect.
ChainThenResponse(pinned) ==
    /\ hops # <<>>
    /\ LastHop.outcome = "response"
    /\ \A i \in 1..(Len(hops) - 1) :
          hops[i].outcome = "redirect" /\ TargetAllowed(hops[i].target, pinned)

\* C2 as stated: when the server answers every request with a redirect to an allowed
\* host, exactly maxRedirects + 1 requests are issued and the call fails with "Too
\* many redirects"; a chain of at most maxRedirects redirects followed by a
\* non-redirect response returns that response.
C2_AsStated ==
    /\ (RgDone /\ AllRedirects(FALSE))
          => /\ Len(hops) = rgMax + 1
             /\ rgResult = Thrown("Too many redirects")
    /\ (RgDone /\ ChainThenResponse(FALSE))
          => /\ Len(hops) <= rgMax + 1
             /\ rgResult = Response(LastHop.final)

\* C2 amended: when the server answers every request with a redirect to an https URL
\* on an allowed host, exactly maxRedirects + 1 requests are issued and the call
\* fails with "Too many redirects"; a chain of at most maxRedirects such redirects
\* followed by a non-redirect response returns that response.
C2_HttpsRedirectBudget ==
    /\ (RgDone /\ AllRedirects(TRUE))
          => /\ Len(hops) = rgMax + 1
             /\ rgPc = "threw"
             /\ rgResult = Thrown("Too many redirects")
    /\ (RgDone /\ ChainThenResponse(TRUE))
          => /\ Len(hops) <= rgMax + 1
             /\ rgPc = "returned"
             /\ rgResult = Response(LastHop.final)

\* maxRedirects = 2: three requests, each answered with a followable redirect, and
\* the call has failed.
C2_Witness ==
    /\ RgDone
    /\ rgMax = 2
    /\ AllRedirects(TRUE)
    /\ Len(hops) = 3
    /\ rgResult = Thrown("Too many redirects")

\* C6: in fetchWithTimeout, a request whose timer fires first is aborted through its
\* AbortController and the caller gets the timeout error; a request that is answered
\* or fails first has its timer cleared and is never aborted; a request has one of
\* the three outcomes.
C6_TimeoutAbortsOrClears ==
    /\ \A i \in DOMAIN hops :
          LET h == hops[i]
          IN  /\ h.outcome = "pending"
                    => /\ h.id \in timers /\ h.id \notin aborted
                       /\ i = Len(hops) /\ rgPc = "await"
              /\ h.outcome = "timeout"
                    => /\ h.id \in aborted /\ h.id \notin timers
                       /\ i = Len(hops) /\ rgResult = Thrown("Request timeout")
              /\ h.outcome \in {"response", "redirect", "error"}
                    => h.id \notin timers /\ h.id \notin aborted
    /\ rgResult = Thrown("Request timeout") => (hops # <<>> /\ LastHop.outcome = "timeout")
    /\ rgResult = Thrown("fetch failed") => (hops # <<>> /\ LastHop.outcome = "error")
    /\ rgResult.kind = "response" => (hops # <<>> /\ LastHop.outcome = "response")

\* After an answered request (a redirect), the next request has timed out.
C6_Witness ==
    /\ Len(hops) = 2
    /\ hops[1].outcome = "redirect"
    /\ hops[2].outcome = "timeout"
    /\ hops[1].id \notin aborted
    /\ hops[2].id \in aborted

(***************************************************************************)
(* Properties of withRetries.                                              *)
(***************************************************************************)
RtDone == RtSettledCall
MaxAttempts == IF rtRetries >= 0 THEN rtRetries + 1 ELSE 0

\* C8: withRetries calls task at most retries + 1 times, returns the first
\* successful result without any further call, sleeps baseDelayMs * k before the
\* k-th retry, and when all retries + 1 attempts fail it throws the error of the
\* last attempt without sleeping after it.
C8_RetrySchedule ==
    /\ taskCalls <= MaxAttempts
    /\ Len(taskLog) <= taskCalls
    /\ \A i \in 1..(Len(taskLog) - 1) : taskLog[i].kind = "error"
    /\ (taskLog # <<>> /\ taskLog[Len(taskLog)].kind = "value")
          => /\ taskCalls = Len(taskLog)
             /\ RtDone => (rtPc = "returned" /\ rtResult = taskLog[Len(taskLog)])
    /\ rtPc = "returned" => (taskLog # <<>> /\ rtResult = taskLog[Len(taskLog)])
    /\ \A k \in DOMAIN sleeps : sleeps[k] = rtBaseDelay * k
    /\ Len(sleeps) >= taskCalls - 1
    /\ Len(sleeps) <= taskCalls
    /\ (Len(taskLog) = rtRetries + 1 /\ taskLog # <<>> /\ taskLog[Len(taskLog)].kind = "error")
          => /\ Len(sleeps) = rtRetries
             /\ RtDone => (rtPc = "threw" /\ rtResult = taskLog[Len(taskLog)])

\* retries = 2 with a non-zero delay: three attempts have failed, the third error was
\* thrown, and the two sleeps were of baseDelayMs and 2 * baseDelayMs.
C8_Witness ==
    /\ rtPc = "threw"
    /\ rtRetries = 2
    /\ rtBaseDelay = 400
    /\ taskCalls = 3
    /\ rtResult = Err("task failed", 3)
    /\ sleeps = <<400, 800>>

\* C9: the onRetry observer is called once before each retry with the failure and the
\* attempt number, and cannot affect control flow: whatever it does, throwing
\* included, the attempts made and the result or error are those of a call without
\* observer (which ends with the first success, or with the error of attempt
\* retries + 1).
C9_ObserverCannotAffectControlFlow ==
    /\ rtObserver # "none" =>
          /\ Len(observerCalls) = Len(sleeps)
          /\ \A k \in DOMAIN observerCalls :
                observerCalls[k] = [error |-> taskLog[k], attempt |-> k]
    /\ (RtDone /\ rtRetries >= 0) =>
          /\ taskLog # <<>>
          /\ rtResult = taskLog[Len(taskLog)]
          /\ rtPc = "threw" => Len(taskLog) = rtRetries + 1

(***************************************************************************)
(* Properties of scrapeLinkedInPost.                                       *)
(***************************************************************************)
\* C5: scrapeLinkedInPost called with a URL that fails isValidLinkedInPostUrl fails
\* with INVALID_URL without issuing any network request, without sleeping and
\* without any retry.
C5_InvalidUrlFailsBeforeIO ==
    ~isValidLinkedInPostUrl(postUrl) =>
        /\ netRequests = 0
        /\ sleeps = <<>>
        /\ taskCalls = 0
        /\ observerCalls = <<>>
        /\ scPc \in {"call", "threw"}
        /\ scPc = "threw" => scResult = Err("INVALID_URL", 0)

\* The call has failed with INVALID_URL for a post URL on the right host and path
\* whose scheme is http.
C5_Witness ==
    /\ scPc = "threw"
    /\ scResult = Err("INVALID_URL", 0)
    /\ postUrl = [scheme |-> "http", host |-> LINKEDIN_HOST, path |-> <<"posts", "x">>]

\* C7: every network call is bounded by its timeout up to and including the reading
\* of the response body: while the body of the page response is read, the timer of
\* its request is still armed, so that a body that never ends is cut off.
C7_BodyReadBoundedByTimeout == soPc = "body" => bodyOf \in timers

\* C10: a scrape attempt that ends with PRIVATE_OR_PROTECTED or TEXT_NOT_FOUND is
\* not attempted again: it is the last call of scrapeOnce.
C10_NoRetryAfterPermanentFailure ==
    \A i \in DOMAIN taskLog :
        taskLog[i].code \in {"PRIVATE_OR_PROTECTED", "TEXT_NOT_FOUND"} => taskCalls = i

(***************************************************************************)
(* Properties of the URL policy.                                           *)
(***************************************************************************)
\* A label: one or more letters, digits and hyphens.
IsLabel(s) ==
    /\ Len(s) >= 1
    /\ \A i \in 1..Len(s) : s[i] \in LowerLetters \cup Digits \cup {"-"}

\* C3: isAllowedLinkedInMediaHost(hostname) is true exactly when the lower-cased
\* hostname is one non-empty label of letters, digits and hyphens followed by
\* ".licdn.com"; so it is false for the bare suffix, for a multi-label prefix and
\* for a host that only contains "licdn.com" before its end.
C3_MediaHostExact ==
    hostVerdict # "none" =>
        LET h == ToLowerCase(hostIn)
            n == Len(h) - Len(LICDN_SUFFIX)
        IN  (hostVerdict = "true") <=>
                /\ n >= 1
                /\ IsLabel(SubSeq(h, 1, n))
                /\ SubSeq(h, n + 1, Len(h)) = LICDN_SUFFIX

\* A look-alike host (".licdn.com" inside, not at the end) has been rejected, a
\* one-label host accepted.
C3_Witness ==
    /\ hostVerdict = "false"
    /\ hostIn = <<"a">> \o LICDN_SUFFIX \o <<".">> \o Evil

\* C4: isValidLinkedInPostUrl(url) is true if and only if url parses, its scheme is
\* https, its hostname is www.linkedin.com and its path starts with "/posts/" or
\* "/feed/update/".
C4_PostUrlIff ==
    urlVerdict # "none" =>
        LET u == parseUrl(urlIn)
        IN  (urlVerdict = "true") <=>
                /\ u.ok
                /\ u.protocol = "https:"
                /\ u.hostname = LINKEDIN_HOST
                /\ \/ StartsWith(u.pathname, <<"/", "posts", "/">>)
                   \/ StartsWith(u.pathname, <<"/", "feed", "/", "update", "/">>)

\* A post URL written with an upper-case scheme and host and a leading ".." segment
\* has been accepted.
C4_Witness ==
    /\ urlVerdict = "true"
    /\ urlIn = [scheme |-> "HTTPS", host |-> MixedCaseLinkedInHost,
                path |-> <<"..", "posts", "x">>]

\* C11: scrapeOnce classifies the final response of the page by its status: 401, 403
\* and 999 fail the attempt with PRIVATE_OR_PROTECTED, every other status outside
\* 200..299 fails it with SCRAPE_FAILED, and only a 2xx response is read and parsed;
\* manifests and embed frames are requested only while the page of a 2xx response is
\* being extracted, and no media is downloaded by the scrape.
C11_StatusClassification ==
    [][/\ (soPc = "fetch" /\ soPc' # "fetch" /\ rgPc = "returned")
            => /\ rgResult.status \in {401, 403, 999}
                    => /\ taskResult' = Err("PRIVATE_OR_PROTECTED", taskCalls)
                       /\ soPc' = "idle"
               /\ (rgResult.status \notin {401, 403, 999}
                        /\ ~(rgResult.status \in 200..299))
                    => /\ taskResult' = Err("SCRAPE_FAILED", taskCalls)
                       /\ soPc' = "idle"
               /\ rgResult.status \in 200..299 => soPc' = "body" /\ taskPc' = "running"
       /\ (soPc' = "body" /\ soPc # "body")
            => soPc = "fetch" /\ rgPc = "returned" /\ rgResult.status \in 200..299
       /\ (soPc' \in {"native", "embeds"}) => soPc \in {"body", "native", "embeds"}
       /\ secRequests' # secRequests => soPc \in {"body", "native", "embeds"}
       /\ dlRequests' = dlRequests
       /\ (soPc # "idle" /\ soPc' = "idle" /\ soPc \notin {"body", "native", "embeds"})
            => UNCHANGED <<secRequests, ndTasks, emTasks, result>>]_vars

\* The page request of the first attempt got a final answer outside 200..299 that is
\* none of 401, 403 and 999: the attempt has failed with SCRAPE_FAILED, and no
\* manifest or frame was requested.
C11_Witness ==
    /\ taskPc = "rejected"
    /\ taskResult = Err("SCRAPE_FAILED", 1)
    /\ soPc = "idle"
    /\ secRequests = 0
    /\ netRequests > 0

\* Every text source of page p is empty or a placeholder.
C12_NoUsableSource(p) ==
    /\ p.primarySchema # NoSchema
        => \A f \in {"articleBody", "description", "text", "headline", "name"} :
              isLowValueFallbackText(p.primarySchema[f])
    /\ isLowValueFallbackText(p.mainCommentary)
    /\ \A i \in DOMAIN p.selectorTexts : isLowValueFallbackText(p.selectorTexts[i])
    /\ isLowValueFallbackText(p.ogDescription)
    /\ isLowValueFallbackText(p.ogTitle)

\* Page p holds no media of any kind.
C12_NoMediaOn(p) ==
    /\ p.schemaMedia = NoMedia
    /\ p.pageImageUrls = <<>> /\ p.pageVideoUrls = <<>> /\ p.pageDocumentUrls = <<>>
    /\ p.configs = <<>> /\ p.frameCandidates = <<>> /\ p.ogImages = <<>>

\* What C12 says of an attempt that has parsed its page, for the pages in scope.
C12_Attempt(inScope) ==
    (taskPc \in {"fulfilled", "rejected"} /\ page # NoPage)
        => /\ taskPc = "fulfilled" => result # NoResultObject /\ result.text # ""
           /\ (inScope /\ C12_NoUsableSource(page))
                => taskResult = Err("TEXT_NOT_FOUND", taskCalls)
           /\ (inScope /\ PostText(page) # "" /\ C12_NoMediaOn(page))
                => /\ taskPc = "fulfilled"
                   /\ result.imageUrls = <<>>
                   /\ result.videoUrls = <<>>
                   /\ result.documentUrls = <<>>

C13_TextByPriority(p) ==
    LET schemaTexts == IF p.primarySchema = NoSchema THEN <<>>
                       ELSE <<p.primarySchema.articleBody, p.primarySchema.description,
                              p.primarySchema.text, p.primarySchema.headline,
                              p.primarySchema.name>>
        sources == schemaTexts \o <<p.mainCommentary>> \o p.selectorTexts
                       \o <<p.ogDescription, p.ogTitle>>
        usable == {i \in DOMAIN sources : ~isLowValueFallbackText(sources[i])}
    IN  IF usable = {} THEN "" ELSE normalizeWhitespace(sources[CHOOSE i \in usable : \A j \in usable : i <= j])

\* C13: the text of a result is the structured-data text when there is one that is
\* neither empty nor a placeholder, else the first such commentary or selector text,
\* else the Open-Graph description, else the Open-Graph title; and an attempt on a
\* page that is no authentication wall fails with TEXT_NOT_FOUND exactly when every
\* one of these sources is empty or a placeholder.
C13_TextPriority ==
    (taskPc \in {"fulfilled", "rejected"} /\ page # NoPage /\ ~hasAuthWall(page))
        => /\ taskPc = "fulfilled" => result.text = C13_TextByPriority(page)
           /\ taskResult = Err("TEXT_NOT_FOUND", taskCalls)
                <=> C13_TextByPriority(page) = ""

\* seq has no element twice.
C14_NoDuplicate(seq) == \A i, j \in DOMAIN seq : seq[i] = seq[j] => i = j

\* C14: in every result of scrapeOnce, and so of scrapeLinkedInPost, each of
\* imageUrls, videoUrls and documentUrls has at most 40 entries and holds no URL
\* twice, whatever the schema, the DOM, the native documents and the embed frames
\* contribute.
C14_MediaListsCappedAndDistinct ==
    taskPc = "fulfilled"
        => \A list \in {result.imageUrls, result.videoUrls, result.documentUrls} :
              Len(list) <= 40 /\ C14_NoDuplicate(list)

\* A page on which the schema, the DOM, a manifest and a frame name more than 40
\* images, videos and documents, several of them twice: each list was cut to 40.
C14_Witness ==
    /\ taskPc = "fulfilled"
    /\ page = CrowdedPage
    /\ Len(page.schemaMedia.imageUrls \o page.pageImageUrls) > 40
    /\ \E i \in DOMAIN page.pageImageUrls : page.pageImageUrls[i] \in Range(page.schemaMedia.imageUrls)
    /\ emTasks[1].media.imageUrls # <<>>
    /\ nativeMedia.documentUrls # <<>>
    /\ Len(result.imageUrls) = 40
    /\ Len(result.videoUrls) = 40
    /\ Len(result.documentUrls) = 40

\* The URLs of raw that addCandidateUrl accepts.
C15_Accepted(raw) == Range(addCandidateUrls(<<>>, raw))

\* The documents named by the payloads of the manifests whose request has not failed,
\* and the pages named by the image manifests that were read.
C15_PayloadDocuments ==
    UNION {C15_Accepted(<<ManifestPayloadOf(page, ndTasks[i].url).transcribedDocumentUrl,
                          ManifestPayloadOf(page, ndTasks[i].url).downloadUrl>>) :
              i \in {j \in DOMAIN ndTasks : ndTasks[j].failedAt # "manifest"}}
C15_ManifestPages ==
    UNION {C15_Accepted(ImageManifestPagesOf(page, ndTasks[i].imageManifestUrl)) :
              i \in {j \in DOMAIN ndTasks : ndTasks[j].failedAt = ""}}

\* C15: a manifest or image manifest whose request has failed under every referer
\* (or was refused by the guard) is logged and adds no URL, every other manifest of
\* the page is still resolved and adds its URLs, and the extraction of a page with
\* text returns its text and the media found.
C15_FailedManifestIsSkipped ==
    (page # NoPage /\ ~hasAuthWall(page) /\ soPc \in {"embeds", "idle"})
        => /\ \A i \in DOMAIN ndTasks :
                /\ ndTasks[i].pc = "done"
                /\ ndTasks[i].failedAt # ""
                    <=> [message |-> "Failed to parse native document manifest",
                         url |-> ndTasks[i].url] \in logged
           /\ Range(documentSet) = Range(ConfigDocuments(page.configs, <<>>))
                                       \cup C15_PayloadDocuments
           /\ Range(imageSet) = Range(CoverImages(page.configs, <<>>)) \cup C15_ManifestPages
           /\ Range(nativeMedia.documentUrls) = DocumentPaths(documentSet)
           /\ (soPc = "idle" /\ PostText(page) # "")
                => /\ taskPc = "fulfilled"
                   /\ result.text = PostText(page)
                   /\ Len(result.documentUrls) < MAX_MEDIA_COUNT
                        => Range(nativeMedia.documentUrls) \subseteq Range(result.documentUrls)
                   /\ Len(result.imageUrls) < MAX_MEDIA_COUNT
                        => Range(nativeMedia.imageUrls) \cup Range(page.pageImageUrls)
                               \subseteq Range(result.imageUrls)

\* The first manifest of the page has failed, the second was resolved after it and
\* its image manifest read, and the extraction has returned.
C15_Witness ==
    /\ page = DocumentPage
    /\ soPc = "idle"
    /\ taskPc = "fulfilled"
    /\ ndTasks[1].failedAt = "manifest"
    /\ ndTasks[2].failedAt = ""
    /\ ndTasks[3].failedAt = "image"
    /\ Cardinality(logged) = 2
    /\ MediaUrl("document", 1) \in Range(result.documentUrls)
    /\ result.text = "Commentary"

\* C16: during one extraction at most 2 requests for manifests, image manifests and
\* embed frames are outstanding at any time, and at most 3 manifests and at most 3
\* frames, all distinct, are taken up, however many the page holds.
C16_SecondaryRequestsBounded ==
    /\ Cardinality(Running(ndTasks)) + Cardinality(Running(emTasks)) <= 2
    /\ Len(ndTasks) <= 3
    /\ Len(emTasks) <= 3
    /\ \A i, j \in DOMAIN ndTasks : ndTasks[i].url = ndTasks[j].url => i = j
    /\ \A i, j \in DOMAIN emTasks : emTasks[i].url = emTasks[j].url => i = j
    /\ \A i \in DOMAIN ndTasks : ndTasks[i].ref <= Len(referers)
    /\ \A i \in DOMAIN emTasks : Len(emTasks[i].tried) <= Len(referers)

\* A page with four distinct frames: the first frame is done, the second and the
\* third are being fetched, and the fourth was left out.
C16_Witness ==
    /\ page = FramesPage
    /\ Cardinality({u \in Range(page.frameCandidates) : Head(u.path) = "embeds"}) = 4
    /\ Len(emTasks) = 3
    /\ emTasks[1].pc = "done"
    /\ emTasks[2].pc = "fetch"
    /\ emTasks[3].pc = "fetch"
    /\ FrameUrl(4) \notin {emTasks[i].url : i \in DOMAIN emTasks}

\* The cover pages of the configs of the page, and the pages listed by the image
\* manifests that were read.
C17_Covers == Range(CoverImages(page.configs, <<>>))
C17_ListedPages ==
    UNION {Range(ImageManifestPagesOf(page, ndTasks[i].imageManifestUrl)) :
              i \in {j \in DOMAIN ndTasks : /\ ndTasks[j].pc = "done"
                                            /\ ndTasks[j].failedAt = ""
                                            /\ ndTasks[j].imageManifestUrl # NoInputUrl}}

\* C17: when an image manifest has yielded a page list that is not empty, the images
\* returned by the native-document resolution are pages of such lists and no cover
\* page; when none has, the cover pages are returned; and whenever cover pages are
\* discarded, at least one listed page is among the returned images.
C17_PagesSupersedeCovers ==
    (page # NoPage /\ ~hasAuthWall(page) /\ soPc \in {"embeds", "idle"})
        => LET returned == Range(nativeMedia.imageUrls)
           IN  /\ C17_ListedPages # {}
                    => returned \cap C17_Covers = {} /\ returned \subseteq C17_ListedPages
               /\ C17_ListedPages = {} => returned = C17_Covers
               /\ (C17_Covers # {} /\ ~(C17_Covers \subseteq returned))
                    => returned \cap C17_ListedPages # {}

\* The referers in the stated fallback order: the origin of the post first, then the
\* default origins that differ from it.
C18_FallbackOrder ==
    LET postOrigin == Origin(extractCanonicalUrl(page, postUrl).host)
    IN  <<postOrigin>> \o SelectSeq(<<Origin(LINKEDIN_HOST), Origin(AeHost)>>,
                                    LAMBDA r : r # postOrigin)

\* C18: the requests of an embed frame go through the referers in fallback order,
\* the post origin first; the first response with a success status is used; and a
\* frame is logged and skipped without a success status only after its request has
\* failed, by a status or by a fetch error, under every referer.
C18_FrameSkippedAfterAllReferers ==
    (page # NoPage /\ ~hasAuthWall(page) /\ soPc \in {"embeds", "idle"})
        => /\ referers = C18_FallbackOrder
           /\ \A i \in DOMAIN emTasks :
                LET t == emTasks[i]
                    skipped == [message |-> "Failed to parse embed frame", url |-> t.url]
                                   \in logged
                IN  /\ Len(t.tried) <= Len(referers)
                    /\ \A k \in DOMAIN t.tried :
                          t.tried[k] \in {"ok", "truncated"} => k = Len(t.tried)
                    /\ (t.pc = "done" /\ t.tried[Len(t.tried)] = "ok")
                          => /\ ~skipped
                             /\ t.media = extractMediaFromEmbedDom(FrameDocumentOf(page, t.url))
                    /\ (skipped /\ t.tried[Len(t.tried)] \notin {"ok", "truncated"})
                          => /\ Len(t.tried) = Len(referers)
                             /\ \A k \in DOMAIN t.tried : t.tried[k] \in {"status", "error"}

\* The media requests that are outstanding: issued and not yet answered or failed.
C19_Outstanding ==
    dlRequests - Cardinality(UNION {{i} \X DOMAIN dlTasks[i].tried : i \in DOMAIN dlTasks})

\* The distinct URLs of the input that are allowed media URLs.
C19_ValidUrls ==
    {u \in {dlInput[i].url : i \in DOMAIN dlInput} : isAllowedLinkedInMediaUrl(u)}

\* C19: downloadLinkedInMedia never has more than 3 media requests outstanding, takes
\* up at most 40 URLs per call, all distinct, and returns at most 40 items; it
\* attempts every distinct allowed URL of its input up to 40 of them, so all 11 of an
\* input with 11.
C19_DownloadBounded ==
    /\ C19_Outstanding <= 3
    /\ C19_Outstanding = Cardinality({i \in DOMAIN dlTasks : dlTasks[i].pc = "fetch"})
    /\ Cardinality(Running(dlTasks)) <= 3
    /\ Len(dlTasks) <= 40
    /\ \A i, j \in DOMAIN dlTasks : dlTasks[i].url = dlTasks[j].url => i = j
    /\ Len(dlResult) <= 40
    /\ dlPc = "returned"
        => /\ \A u \in C19_ValidUrls :
                Cardinality(C19_ValidUrls) <= 40
                    => \E i \in DOMAIN dlTasks : dlTasks[i].url = u /\ dlTasks[i].tried # <<>>
           /\ Len(dlTasks) = IF Cardinality(C19_ValidUrls) <= 40
                             THEN Cardinality(C19_ValidUrls) ELSE 40
           /\ \A i \in DOMAIN dlTasks : dlTasks[i].tried # <<>>

\* The call with 11 distinct allowed URLs has returned 11 items after 11 requests.
C19_Witness ==
    /\ dlPc = "returned"
    /\ dlInput = ElevenEntries
    /\ Cardinality(C19_ValidUrls) = 11
    /\ Len(dlInput) > 11
    /\ \A i \in 1..11 : dlTasks[i].tried = <<200>>
    /\ dlRequests = 11
    /\ Len(dlResult) = 11

\* The referers of task i in the stated order: the referer of the entry, or else
\* options.referer, first, then the default origins that differ from it.
C20_RefererOrder(i) ==
    LET entry == dlInput[CHOOSE k \in DOMAIN dlInput :
                            /\ dlInput[k].url = dlTasks[i].url
                            /\ \A j \in DOMAIN dlInput : dlInput[j].url = dlTasks[i].url => k <= j]
        preferred == IF entry.referer # NoInputUrl THEN entry.referer ELSE dlReferer
        defaults == SelectSeq(<<Origin(LINKEDIN_HOST), Origin(AeHost)>>,
                              LAMBDA r : r # preferred)
    IN  IF preferred = NoInputUrl THEN defaults ELSE <<preferred>> \o defaults

\* C20: the requests of a media candidate go through its referers in order, the
\* preferred referer first, then the defaults, none twice; a 401 or 403 answer goes
\* on to the next referer and any other answer ends the attempts; an item is produced
\* only after a final 2xx answer, and none when every referer was answered with 401
\* or 403.
C20_RefererFallback ==
    \A i \in DOMAIN dlTasks :
        LET t == dlTasks[i]
            last == t.tried[Len(t.tried)]
        IN  /\ t.referers = C20_RefererOrder(i)
            /\ \A j, k \in DOMAIN t.referers : t.referers[j] = t.referers[k] => j = k
            /\ Len(t.tried) <= Len(t.referers)
            /\ \A k \in DOMAIN t.tried :
                  (k < Len(t.tried) \/ t.pc = "fetch") => t.tried[k] \in {401, 403}
            /\ (t.pc = "done" /\ last \in {401, 403}) => Len(t.tried) = Len(t.referers)
            /\ t.pc = "body" => last \in 200..299
            /\ t.item # NoItem => t.pc = "done" /\ last \in 200..299
            /\ (t.pc = "done" /\ \A k \in DOMAIN t.tried : t.tried[k] \in {401, 403})
                  => /\ t.item = NoItem
                     /\ dlPc = "returned" => \A k \in DOMAIN dlResult : dlResult[k].url # t.url

\* The first candidate was dropped after 403 and 401 under its two referers; the
\* second, which has three referers, was produced by the 200 that followed a 401 and
\* a 403.
C20_Witness ==
    /\ dlPc = "returned"
    /\ dlInput = TwoEntries
    /\ dlTasks[1].referers = <<Origin(AeHost), Origin(LINKEDIN_HOST)>>
    /\ dlTasks[1].tried = <<403, 401>>
    /\ dlTasks[2].referers = <<Origin(UkHost), Origin(LINKEDIN_HOST), Origin(AeHost)>>
    /\ dlTasks[2].tried = <<401, 403, 200>>
    /\ Len(dlResult) = 1
    /\ dlResult[1].url = dlTasks[2].url

\* Whether task t of the download ended in its catch block: its fetch threw, its final
\* status was not 2xx, its body was empty or unreadable, or no media type was
\* determined.
C21_Failed(t) ==
    \/ t.tried[Len(t.tried)] = 0
    \/ ~ResponseOk(t.tried[Len(t.tried)])
    \/ t.body.kind \in {"empty", "truncated"}
    \/ inferMediaType(t.requestedType, MimeTypeOf(t.body.contentType), t.url) = ""

\* C21: a per-item failure never fails downloadLinkedInMedia as a whole.  A task that
\* is done either failed, and then it has no item, is logged and made no request
\* after the failure, or it produced its item; when every task is done the call can
\* return, and the list it returns holds exactly the items of the tasks that did not
\* fail.
C21_ItemFailureIsLocal ==
    /\ \A i \in DOMAIN dlTasks :
          LET t == dlTasks[i]
          IN  t.pc = "done"
                 => /\ C21_Failed(t) <=> t.item = NoItem
                    /\ C21_Failed(t)
                          <=> [message |-> "Skipping media after download failure",
                               url |-> t.url] \in logged
                    /\ \A k \in DOMAIN t.tried :
                          (t.tried[k] = 0 \/ t.tried[k] \notin {401, 403}) => k = Len(t.tried)
    /\ (dlPc = "running" /\ AllDone(dlTasks)) => ENABLED DlSettled
    /\ dlPc = "returned"
          => /\ AllDone(dlTasks)
             /\ \A i \in DOMAIN dlTasks :
                   ~C21_Failed(dlTasks[i])
                      <=> \E k \in DOMAIN dlResult : dlResult[k] = dlTasks[i].item
             /\ \A k \in DOMAIN dlResult :
                   \E i \in DOMAIN dlTasks : dlResult[k] = dlTasks[i].item /\ dlResult[k] # NoItem

\* Of four items the first got 404, the request of the second failed, and the other
\* two were downloaded and returned.
C21_Witness ==
    /\ dlPc = "returned"
    /\ dlInput = FourEntries
    /\ dlTasks[1].tried = <<404>>
    /\ dlTasks[2].tried = <<0>>
    /\ Len(dlResult) = 2
    /\ dlResult[1].url = MediaUrl("image", 3)
    /\ dlResult[2].url = MediaUrl("image", 4)
    /\ Cardinality(logged) = 2

\* The position of the first entry of the input whose normalised URL is u.
C22_FirstIndex(u) ==
    CHOOSE i \in DOMAIN dlInput :
        /\ EntryUrl(dlInput[i]) = u
        /\ \A j \in DOMAIN dlInput : EntryUrl(dlInput[j]) = u => i <= j

\* C22: the list downloadLinkedInMedia returns is a subsequence of its input: every
\* returned URL is the URL of an input entry, the returned URLs follow each other in
\* the order of their entries whatever the order in which the downloads completed,
\* none is returned twice, and each is an https URL on an allowed media host.
C22_ResultIsSubsequence ==
    dlPc = "returned"
        => /\ \A k \in DOMAIN dlResult :
                /\ \E i \in DOMAIN dlInput : EntryUrl(dlInput[i]) = dlResult[k].url
                /\ parseUrl(dlResult[k].url).ok
                /\ parseUrl(dlResult[k].url).protocol = "https:"
                /\ isAllowedLinkedInMediaHost(parseUrl(dlResult[k].url).hostname)
           /\ \A k, l \in DOMAIN dlResult :
                k < l => C22_FirstIndex(dlResult[k].url) < C22_FirstIndex(dlResult[l].url)

\* The 11 allowed URLs of an input of 13 entries were returned in input order: the
\* repeated URL once, the URL of the foreign host not at all.
C22_Witness ==
    /\ dlPc = "returned"
    /\ dlInput = ElevenEntries
    /\ Len(dlResult) = 11
    /\ \A k \in 1..11 : dlResult[k].url = MediaUrl("image", k)
    /\ \E i, j \in DOMAIN dlInput : i # j /\ dlInput[i].url = dlInput[j].url
    /\ \E i \in DOMAIN dlInput : ~isAllowedLinkedInMediaUrl(dlInput[i].url)

\* The media type of the response of task t, from its Content-Type header alone:
\* "none" for text/html, "" when the header decides nothing.
C23_TypeOfHeader(t) ==
    LET major == t.body.contentType.major
        minor == t.body.contentType.minor
    IN  IF major = "text" /\ minor \in {"html", "html5"} THEN "none"
        ELSE IF major \in {"image", "video"} THEN major
        ELSE IF major = "application" /\ minor = "pdf" THEN "document"
        ELSE ""

\* Whether the header of the response of task t is absent or application/octet-stream.
C23_GenericHeader(t) ==
    \/ t.body.contentType.major = "" /\ t.body.contentType.minor = ""
    \/ t.body.contentType.major = "application" /\ t.body.contentType.minor = "octet-stream"

\* C23: the mediaType of a downloaded item is image, video or document and the
\* Content-Type of the response decides it first: text/html drops the item, image/*,
\* video/* and application/pdf give image, video and document whatever the path of
\* the URL suggests; for any other MIME type the path decides when it suggests a
\* type, and the type the caller declared is used only when the path suggests none
\* and the MIME type is empty or application/octet-stream.
C23_MediaTypeFromContentType ==
    \A i \in DOMAIN dlTasks :
        LET t == dlTasks[i]
            byHeader == C23_TypeOfHeader(t)
            byPath == PathMediaType(t.url)
        IN  /\ t.item # NoItem => t.item.mediaType \in {"image", "video", "document"}
            /\ (t.pc = "done" /\ t.body.kind = "data")
                  => /\ byHeader = "none" => t.item = NoItem
                     /\ byHeader \in {"image", "video", "document"}
                           => t.item # NoItem /\ t.item.mediaType = byHeader
                     /\ (byHeader = "" /\ byPath # "")
                           => t.item # NoItem /\ t.item.mediaType = byPath
                     /\ (byHeader = "" /\ byPath = "")
                           => IF C23_GenericHeader(t)
                                    /\ t.requestedType \in {"image", "video", "document"}
                              THEN t.item # NoItem /\ t.item.mediaType = t.requestedType
                              ELSE t.item = NoItem

\* A URL whose path suggests an image, declared as a video, was answered with the
\* header APPLICATION/PDF and became a document.
C23_Witness ==
    /\ dlPc = "returned"
    /\ Len(dlTasks) = 1
    /\ dlTasks[1].url = MediaUrl("image", 1)
    /\ dlTasks[1].requestedType = "video"
    /\ dlTasks[1].body = Body("data", ContentType("application", "pdf", FALSE, TRUE))
    /\ Len(dlResult) = 1
    /\ dlResult[1].mediaType = "document"
    /\ dlResult[1].mimeType = [major |-> "application", minor |-> "pdf"]

\* Whether the body of the request is an invalid Telegram payload: it is not
\* parseable as JSON or it fails the update schema of its handler.
C24_InvalidPayload ==
    \/ parseBody(whReq.body).threw
    \/ whReq.handler = "linkedin" /\ ~TelegramUpdateSchema(parseBody(whReq.body).value)
    \/ whReq.handler = "anime" /\ ~AnimeUpdateSchema(parseBody(whReq.body).value)

\* C24: a POST whose body is an invalid Telegram payload (it fails the update schema
\* or is not parseable as JSON) is answered with 400 and starts no scrape and no
\* Telegram message; a request that is not a POST is answered with 405.
C24_InvalidPayloadIsRejected ==
    /\ (whReq.method = "POST" /\ whReq.token /\ C24_InvalidPayload)
          => /\ wh.scrapes = 0
             /\ wh.calls = <<>>
             /\ wh.pc = "done" => wh.responses = <<[status |-> 400, ok |-> FALSE]>>
    /\ (whReq.method # "POST" /\ wh.pc = "done")
          => wh.responses = <<[status |-> 405, ok |-> FALSE]>>

\* Whether the request is a POST that carries a schema-valid update while the bot
\* token is configured.
C25_ValidUpdate ==
    /\ whReq.method = "POST"
    /\ whReq.token
    /\ ~parseBody(whReq.body).threw
    /\ whReq.handler = "linkedin" => TelegramUpdateSchema(parseBody(whReq.body).value)
    /\ whReq.handler = "anime" => AnimeUpdateSchema(parseBody(whReq.body).value)

\* C25: for a POST with a schema-valid update and the token configured the handler
\* sends exactly one HTTP response, 200 {ok: true}, whatever fails during
\* processing: until it has responded the handler can always go on, it responds
\* once, and after the response nothing is pending and nothing further happens.
C25_OneResponseAfterProcessing ==
    C25_ValidUpdate
        => /\ Len(wh.responses) <= 1
           /\ wh.pc # "done" => wh.responses = <<>> /\ ENABLED NextWebhook
           /\ wh.pc = "done"
                 => /\ wh.responses = <<[status |-> 200, ok |-> TRUE]>>
                    /\ \A k \in DOMAIN wh.calls : wh.calls[k].status # "pending"
                    /\ ~ENABLED NextWebhook

\* The scrape of a valid update failed, the error message could not be sent either,
\* and the handler answered 200 after both.
C25_Witness ==
    /\ C25_ValidUpdate
    /\ whReq.handler = "linkedin"
    /\ wh.pc = "done"
    /\ wh.scrapes = 1
    /\ wh.caught.code = "SCRAPE_FAILED"
    /\ Len(wh.calls) = 1
    /\ wh.calls[1].status = "failed"
    /\ wh.responses = <<[status |-> 200, ok |-> TRUE]>>

\* The calls that deliver the downloaded items: one call for the images and videos,
\* chosen by their number, then one sendDocument per document.
C26_Delivery(downloadedMedia) ==
    LET streamable == SelectSeq(downloadedMedia,
                                LAMBDA item : item.mediaType \in {"image", "video"})
        documents == SelectSeq(downloadedMedia, LAMBDA item : item.mediaType = "document")
        n == Len(streamable)
        first == IF n = 0 THEN <<>>
                 ELSE IF n = 1
                 THEN <<[method |-> IF streamable[1].mediaType = "video" THEN "sendVideo"
                                    ELSE "sendPhoto",
                         files |-> streamable]>>
                 ELSE IF n <= 10 THEN <<[method |-> "sendMediaGroup", files |-> streamable]>>
                 ELSE <<[method |-> "sendDocument", files |-> streamable]>>
    IN  first \o [k \in DOMAIN documents |-> [method |-> "sendDocument",
                                               files |-> <<documents[k]>>]]

\* The calls the handler made after the success message, as method and files.
C26_Delivered ==
    [k \in 1..(Len(wh.calls) - 1) |->
        [method |-> wh.calls[k + 1].method, files |-> wh.calls[k + 1].files]]

\* C26: after a successful scrape the downloaded images and videos are delivered
\* with exactly one call chosen by their number n (1: sendPhoto or sendVideo, 2 to
\* 10: sendMediaGroup, more than 10: one ZIP document, 0: none) and every downloaded
\* document is then sent as its own sendDocument; sendMediaGroup never gets more
\* than 10 files and createZipBuffer never an empty list.
C26_DeliveryByCount ==
    whReq.handler = "linkedin"
        => /\ \A k \in DOMAIN wh.calls :
                 wh.calls[k].method = "sendMediaGroup" => Len(wh.calls[k].files) <= 10
           /\ \A k \in DOMAIN wh.zipped : wh.zipped[k] # <<>>
           /\ (wh.pc = "done" /\ wh.items # <<>>) => C26_Delivered = C26_Delivery(wh.items)

C27_ErrorMessages ==
    {"INVALID_URL_MESSAGE", "NO_CONTENT_MESSAGE", "PRIVATE_POST_MESSAGE", "GENERIC_ERROR_MESSAGE"}

\* The error messages the LinkedIn handler has sent or tried to send.
C27_ErrorCalls == SelectSeq(wh.calls, LAMBDA call : call.text.id \in C27_ErrorMessages)

\* The message that matches the failure of the update, "" when nothing failed: the
\* text holds no valid post URL, or an error was caught.
C27_Expected ==
    LET message == getIncomingMessage(parseBody(whReq.body).value)
    IN  IF wh.caught.class # ""
        THEN IF wh.caught.code = "INVALID_URL" THEN "INVALID_URL_MESSAGE"
             ELSE IF wh.caught.code = "TEXT_NOT_FOUND" THEN "NO_CONTENT_MESSAGE"
             ELSE IF wh.caught.code = "PRIVATE_OR_PROTECTED" THEN "PRIVATE_POST_MESSAGE"
             ELSE "GENERIC_ERROR_MESSAGE"
        ELSE IF wh.scrapes = 0 /\ message.text.kind \in {"words", "link"}
        THEN "INVALID_URL_MESSAGE"
        ELSE ""

\* C27: when the processing of an update of a known chat fails, exactly one error
\* message is sent and it matches the failure: invalid-link for INVALID_URL,
\* no-content for TEXT_NOT_FOUND, private-post for PRIVATE_OR_PROTECTED, generic for
\* every other failure; when sending it fails, that is logged and the response is
\* still 200 {ok: true}; without failure no error message is sent.
C27_OneMatchingErrorMessage ==
    (whReq.handler = "linkedin" /\ C25_ValidUpdate /\ wh.chatId # "null")
        => /\ Len(C27_ErrorCalls) <= 1
           /\ \A k \in DOMAIN C27_ErrorCalls : C27_ErrorCalls[k].text.id = C27_Expected
           /\ wh.pc = "done"
                 => /\ C27_Expected # "" <=> Len(C27_ErrorCalls) = 1
                    /\ \A k \in DOMAIN C27_ErrorCalls :
                          C27_ErrorCalls[k].status = "failed"
                             => /\ wh.log[Len(wh.log)] = "Failed to send Telegram message"
                                /\ wh.responses = <<[status |-> 200, ok |-> TRUE]>>

\* The scrape failed with PRIVATE_OR_PROTECTED; the private-post message could not
\* be sent, which was logged, and the handler answered 200.
C27_Witness ==
    /\ whReq.handler = "linkedin"
    /\ wh.pc = "done"
    /\ wh.caught = Error("LinkedInExtractionError", "PRIVATE_OR_PROTECTED", FALSE)
    /\ Len(wh.calls) = 1
    /\ wh.calls[1].text.id = "PRIVATE_POST_MESSAGE"
    /\ wh.calls[1].status = "failed"
    /\ wh.log = <<"Failed to process Telegram update", "Failed to send Telegram message">>
    /\ wh.responses = <<[status |-> 200, ok |-> TRUE]>>

\* C29: for one update the LinkedIn handler sends the user the success message or an
\* error message, never both: once the success message was sent no error message
\* follows.
C29_SuccessOrError ==
    whReq.handler = "linkedin"
        => ~ \E k, l \in DOMAIN wh.calls :
                /\ k < l
                /\ wh.calls[k].text.id = "SUCCESS_HEADER"
                /\ wh.calls[k].status = "ok"
                /\ wh.calls[l].text.id \in C27_ErrorMessages

\* The calls made for the previewed result number i: its photo, its video and its
\* text fallback.
C30_CallsOf(i) ==
    SelectSeq(wh.calls,
              LAMBDA call : \/ call.method \in {"sendPhoto", "sendVideo"} /\ call.files[1].rank = i
                            \/ call.text = Txt("DETAILS_PREVIEW_SEND_FAILED_MESSAGE", i))

\* Whether a call carries the details text of result number i.
C30_HasDetails(call, i) ==
    call.text \in {Txt("DETAILS", i), Txt("DETAILS_PREVIEW_SEND_FAILED_MESSAGE", i)}

\* Whether the preview of result number i is over.
C30_Previewed(i) == wh.pc = "done" \/ wh.index > i

\* C30: the anime-search handler previews at most 3 results, in rank order; for each
\* previewed result the details text reaches the user in exactly one message when
\* any send for that result succeeds, as the caption of the photo if the photo was
\* sent, otherwise as the caption of the video if the video was sent, and when
\* neither was sent a text fallback with the details is attempted; a failed photo or
\* video never aborts the remaining results, and the response is 200 {ok: true}.
C30_PreviewDetailsOnce ==
    whReq.handler = "anime"
        => /\ Len(wh.items) <= 3
           /\ \A i \in DOMAIN wh.items : wh.items[i].rank = i
           /\ \A k, l \in DOMAIN wh.calls :
                 (k < l /\ wh.calls[k].files # <<>> /\ wh.calls[l].files # <<>>)
                    => wh.calls[k].files[1].rank <= wh.calls[l].files[1].rank
           /\ \A i \in DOMAIN wh.items :
                 LET calls == C30_CallsOf(i)
                     ok == SelectSeq(calls, LAMBDA call : call.status = "ok")
                     photoSent == \E k \in DOMAIN ok : ok[k].method = "sendPhoto"
                     videoSent == \E k \in DOMAIN ok : ok[k].method = "sendVideo"
                 IN  /\ Cardinality({k \in DOMAIN ok : C30_HasDetails(ok[k], i)}) <= 1
                     /\ C30_Previewed(i)
                           => /\ calls # <<>>
                              /\ ok # <<>> => \E k \in DOMAIN ok : C30_HasDetails(ok[k], i)
                              /\ photoSent
                                    => \E k \in DOMAIN ok : /\ ok[k].method = "sendPhoto"
                                                            /\ ok[k].text = Txt("DETAILS", i)
                              /\ (~photoSent /\ videoSent)
                                    => \E k \in DOMAIN ok : /\ ok[k].method = "sendVideo"
                                                            /\ ok[k].text = Txt("DETAILS", i)
                              /\ (~photoSent /\ ~videoSent)
                                    => \E k \in DOMAIN calls :
                                          /\ calls[k].method = "sendMessage"
                                          /\ C30_HasDetails(calls[k], i)
           /\ (wh.pc = "done" /\ wh.items # <<>>)
                 => wh.responses = <<[status |-> 200, ok |-> TRUE]>>

\* Of five results three were previewed: the first has no preview and its text
\* fallback was sent; the photo of the second failed and its video carried the
\* details; the photo of the third is no http URL, its video failed and the
\* fallback was sent.
C30_Witness ==
    /\ whReq.handler = "anime"
    /\ wh.pc = "done"
    /\ Len(wh.items) = 3
    /\ [k \in DOMAIN wh.calls |-> <<wh.calls[k].method, wh.calls[k].text, wh.calls[k].status>>]
          = << <<"sendMessage", Txt("SUCCESS_HEADER", 3), "ok">>,
               <<"sendMessage", Txt("DETAILS_PREVIEW_SEND_FAILED_MESSAGE", 1), "ok">>,
               <<"sendPhoto", Txt("DETAILS", 2), "failed">>,
               <<"sendVideo", Txt("DETAILS", 2), "ok">>,
               <<"sendVideo", Txt("DETAILS", 3), "failed">>,
               <<"sendMessage", Txt("DETAILS_PREVIEW_SEND_FAILED_MESSAGE", 3), "ok">> >>
    /\ wh.responses = <<[status |-> 200, ok |-> TRUE]>>

\* What a manifest task adds to the two sets, by where it failed ("": nowhere):
\* the documents of its payload unless the manifest request failed, the pages of its
\* image manifest when no request of it failed.
C28_TaskDocuments(t) ==
    IF t.failedAt = "manifest" THEN <<>>
    ELSE LET payload == ManifestPayloadOf(page, t.url)
         IN  <<payload.transcribedDocumentUrl, payload.downloadUrl>>
C28_TaskPages(t) ==
    IF t.failedAt # "" THEN <<>>
    ELSE ImageManifestPagesOf(page, pickImageManifestUrl(ManifestPayloadOf(page, t.url)))

RECURSIVE C28_InOrder(_, _, _, _)
C28_InOrder(i, images, documents, fullPages) ==
    IF i > Len(ndTasks) THEN NativeResult(images, documents, fullPages)
    ELSE C28_InOrder(i + 1,
                     addCandidateUrls(images, C28_TaskPages(ndTasks[i])),
                     addCandidateUrls(documents, C28_TaskDocuments(ndTasks[i])),
                     fullPages \/ C28_TaskPages(ndTasks[i]) # <<>>)

\* What native-document resolution returns when the manifest tasks complete in the
\* order of their manifests, under the responses the tasks have met.
C28_Reference ==
    C28_InOrder(1, CoverImages(page.configs, <<>>), ConfigDocuments(page.configs, <<>>), FALSE)

C28_Resolved == page # NoPage /\ ndTasks # <<>> /\ AllDone(ndTasks) /\ soPc # "native"

\* C28: for a fixed page and fixed responses, native-document resolution returns the
\* same set of image URLs and the same set of document URLs under every completion
\* order of the manifest tasks, also when more than MAX_MEDIA_COUNT candidates are
\* found: the sets are those of the tasks completing in manifest order.
C28_SetsIndependentOfCompletionOrder ==
    C28_Resolved =>
        /\ Range(nativeMedia.imageUrls) = Range(C28_Reference.imageUrls)
        /\ Range(nativeMedia.documentUrls) = Range(C28_Reference.documentUrls)

====
